---- MODULE Spec2Model ----
(***************************************************************************)
(* The asynchronous request orchestration of acouchbase: the decorators of *)
(* acouchbase/logic/wrappers.py and acouchbase/management/logic/wrappers.py *)
(* that turn one native fire-and-callback call into one asyncio future,    *)
(* and the lazy connection chain cluster -> bucket -> scope -> collection. *)
(*                                                                         *)
(* Threads: the application and every done-callback run on the event loop  *)
(* thread; the engine invokes on_ok / on_err on its own thread.  Each       *)
(* handler is one action.  The loop's ready queue (call_soon and            *)
(* call_soon_threadsafe) is the FIFO sequence loopq.                        *)
(***************************************************************************)
EXTENDS Integers, Sequences, FiniteSets, TLC

\* Bound: number of calls the application makes in a behaviour.
MaxCalls == 2

\* One call creates at most three futures: the operation's own, the bucket
\* open's and the cluster connect's.
MaxFt == 3 * MaxCalls

\* Bound: number of futures the application cancels (SpecCancel).
MaxCancels == 1

\* Bound: number of callbacks a misbehaving engine invokes beyond the one
\* each native call is owed (SpecDouble).
MaxExtra == 1

\* Bound: number of rows the engine delivers for one query.
MaxRows == 2

\* Bound: number of times the application triggers submission explicitly.
MaxTriggers == 2

\* The longest list of projections a get is called with.
MaxProject == 18

\* Bound: positional parameters given after the statement of a query.
MaxPositional == 2

\* Bound: tokens of a MutationState.
MaxTokens == 2

\* Bound: event loops the application creates.
MaxLoops == 2

\* Bound: number of calls made on the search index manager (SpecSearch).
MaxSearchCalls == 2
MaxDsCalls == 2
MaxEnv == 2

VARIABLES
    conn,        \* node -> cached _connection (0 is None, else the handle)
    connected,   \* the bucket's _connected flag
    connect_ft,  \* cluster / bucket -> the connect future cached by on_connect
    op,          \* future id -> the wrapped call and its future
    nft,         \* number of futures created so far
    ncalls,      \* number of calls the application has made
    ncancels,    \* number of futures the application has cancelled
    nextra,      \* number of extra callbacks the engine has invoked
    loopq,       \* the event loop's ready queue
    qreq,        \* the fields of one QueryRequestLogic object
    qenv,        \* its environment: the native query, the engine, the consumer
    search,      \* the search service and the calls of the search index manager
    vcall,       \* the last call of a blocking-API function and its outcome
    n1ql,        \* one N1QLQuery object and the last call made on it
    evl,         \* the event loops of the thread and the last get_event_loop
    sidx,        \* one SearchIndex and the conversions made of it
    ds           \* one datastructure call, its document and its attempts

wvars == <<conn, connected, connect_ft, op, nft, ncalls, ncancels, nextra, loopq,
           search>>

\* The variables of the blocking API objects.
pvars == <<vcall, n1ql, evl, sidx, ds>>

vars == <<conn, connected, connect_ft, op, nft, ncalls, ncancels, nextra, loopq,
          qreq, qenv, search, vcall, n1ql, evl, sidx, ds>>

Nodes == {"cluster", "bucket", "scope", "c1", "c2"}
Collections == {"c1", "c2"}
FtIds == 1..MaxFt

\* The value a future carries: its kind and the call it originates from.
\* m is the message of an exception the wrapped function itself raised.
NoVal == [k |-> "none", o |-> 0, m |-> ""]
Val(k, o) == [k |-> k, o |-> o, m |-> ""]
ValMsg(k, o, m) == [k |-> k, o |-> o, m |-> m]

\* One wrapped call and its future.
\*   kind, node, args  the wrapper, the node it is called on, its arguments
\*   st, val, by       the future: state, value, thread that resolved it
\*   cft, chain        the connect future it is chained on, and how far the
\*                     done-callback has got: waiting, queued, ran
\*   native, eng       native invocations of its own call; the engine's
\*                     progress with it: none, inflight, called
\*   ncb, out          callbacks the engine has invoked, and the first one
\*   ise               a set_result / set_exception raised InvalidStateError
\*   escaped           on_ok raised on the engine's thread
\*   raised            wrapped_fn itself raised (no future was returned)
\*   held              the application holds it as on_connect's return value
NoOp ==
    [kind |-> "none", node |-> "none", args |-> "ok",
     st |-> "none", val |-> NoVal, by |-> "none",
     cft |-> 0, chain |-> "none", native |-> 0, eng |-> "none", ncb |-> 0,
     out |-> "none",
     ise |-> FALSE, escaped |-> FALSE, raised |-> FALSE, held |-> FALSE]

\* The whole program state as one record, so that a handler which calls
\* other handlers is the composition of their effects.
Cur ==
    [conn |-> conn, connected |-> connected, connect_ft |-> connect_ft,
     op |-> op, nft |-> nft, loopq |-> loopq, search |-> search]

Apply(s) ==
    /\ conn' = s.conn
    /\ connected' = s.connected
    /\ connect_ft' = s.connect_ft
    /\ op' = s.op
    /\ nft' = s.nft
    /\ loopq' = s.loopq
    /\ search' = s.search
    /\ UNCHANGED <<qreq, qenv>>
    /\ UNCHANGED pvars

Ret(s, f) == [s |-> s, f |-> f]

Handle(t, f, v, c) == [t |-> t, f |-> f, v |-> v, c |-> c]

----------------------------------------------------------------------------
\* asyncio.Future as the wrappers use it.

\* loop.create_future() at the top of every wrapped_fn.
NewOp(s, kind, node, args) ==
    [s EXCEPT !.nft = @ + 1,
              !.op[s.nft + 1] = [NoOp EXCEPT !.kind = kind, !.node = node,
                                             !.args = args, !.st = "pending"]]

\* The ids, in registration order, of the calls whose done-callback is
\* registered on future f and not yet scheduled.
RECURSIVE WaitersFrom(_, _, _)
WaitersFrom(s, f, i) ==
    IF i \notin FtIds THEN <<>>
    ELSE (IF s.op[i].cft = f /\ s.op[i].chain = "waiting" THEN <<i>> ELSE <<>>)
         \o WaitersFrom(s, f, i + 1)

\* A future that becomes done schedules its done-callbacks with call_soon.
ScheduleCallbacks(s, f) ==
    LET w == WaitersFrom(s, f, 1) IN
    [s EXCEPT !.loopq = @ \o [i \in 1..Len(w) |-> Handle("chain", w[i], NoVal, f)],
              !.op = [o \in FtIds |->
                        IF s.op[o].cft = f /\ s.op[o].chain = "waiting"
                        THEN [s.op[o] EXCEPT !.chain = "queued"]
                        ELSE s.op[o]]]

\* ft.set_result(v) / ft.set_exception(v) executed by thread th: on a future
\* that is not pending it raises InvalidStateError and changes nothing.
FutSet(s, f, st, v, th) ==
    IF s.op[f].st = "pending"
    THEN ScheduleCallbacks(
            [s EXCEPT !.op[f].st = st, !.op[f].val = v, !.op[f].by = th], f)
    ELSE [s EXCEPT !.op[f].ise = TRUE]

\* ft.cancel(): a no-op on a future that is already done.
FutCancel(s, f) ==
    IF s.op[f].st = "pending"
    THEN ScheduleCallbacks(
            [s EXCEPT !.op[f].st = "cancelled", !.op[f].by = "loop"], f)
    ELSE s

\* cft.add_done_callback(partial(chain..., ft, ...)): scheduled at once when
\* cft is already done.
AddDoneCallback(s, cft, o) ==
    IF s.op[cft].st = "pending"
    THEN [s EXCEPT !.op[o].cft = cft, !.op[o].chain = "waiting"]
    ELSE [s EXCEPT !.op[o].cft = cft, !.op[o].chain = "queued",
                   !.loopq = Append(@, Handle("chain", o, NoVal, cft))]

----------------------------------------------------------------------------
\* The wrappers.

\* What the wrapped function does with its arguments: "ok" when it reaches
\* its native call, otherwise the class of the exception it raises before
\* that call.
\*   InvalidArgumentException  a rejected argument (collection.py:101-105)
\*   ValueError                append / prepend of a non-bytes value
\*   TypeError                 a keyword given twice to kv_operation
\*   IndexError                mutate_in with an empty spec entry (s[0])
Raisable == {"InvalidArgumentException", "ValueError", "TypeError", "IndexError"}
ArgKinds == {"ok"} \cup Raisable

\* str(e) of the exception the wrapped function raises.
str(e) ==
    CASE e = "InvalidArgumentException" -> "invalid argument"
      [] e = "ValueError" -> "value must be bytes"
      [] e = "TypeError" -> "got multiple values for keyword argument"
      [] e = "IndexError" -> "tuple index out of range"
      [] OTHER -> ""

\* PYCBC_ERROR_MAP: error code -> exception class.
PYCBC_ERROR_MAP ==
    [c \in {8, 101, 5000} |->
        CASE c = 8 -> "ParsingFailedException"
          [] c = 101 -> "DocumentNotFoundException"
          [] c = 5000 -> "InternalSDKException"]

\* ExceptionMap.InternalSDKException.value
InternalSDKCode == 5000

\* The classes derived from CouchbaseException.
CouchbaseClasses ==
    {"CouchbaseException", "InvalidArgumentException"} \cup {PYCBC_ERROR_MAP[c] : c \in DOMAIN PYCBC_ERROR_MAP}

\* dict.get(key, default)
MapGet(d, k, default) == IF k \in DOMAIN d THEN d[k] ELSE default

\* Faulty variant: every exception of the wrapped function is replaced by an
\* internal-SDK exception.
call_async_fn_wraps_all(s, f) ==
    LET e == s.op[f].args IN
    IF e = "ok"
    THEN [s EXCEPT !.op[f].native = @ + 1, !.op[f].eng = "inflight"]
    ELSE FutSet(s, f, "exception",
                ValMsg(MapGet(PYCBC_ERROR_MAP, InternalSDKCode,
                              "CouchbaseException"), f, str(e)), "loop")

\* call_async_fn: runs the wrapped function.  When the function reaches its
\* native call, the call is handed to the engine with on_ok / on_err as its
\* callbacks.  When it raises, the future is failed on the calling (loop)
\* thread: with the exception itself if it is a CouchbaseException, a
\* TypeError or a ValueError, otherwise with the class the error-code table
\* has for InternalSDKException, built from str(e).
call_async_fn(s, f) ==
    LET e == s.op[f].args IN
    IF e = "ok"
    THEN [s EXCEPT !.op[f].native = @ + 1, !.op[f].eng = "inflight"]
    ELSE IF e \in CouchbaseClasses
    THEN FutSet(s, f, "exception", ValMsg(e, f, str(e)), "loop")
    ELSE IF e \in {"TypeError", "ValueError"}
    THEN FutSet(s, f, "exception", ValMsg(e, f, str(e)), "loop")
    ELSE FutSet(s, f, "exception",
                ValMsg(MapGet(PYCBC_ERROR_MAP, InternalSDKCode,
                              "CouchbaseException"), f, str(e)), "loop")

\* inject_connection_callbacks.wrapped_fn on the cluster: the native connect.
ConnectWrapped(s) ==
    call_async_fn(NewOp(s, "connect", "cluster", "ok"), s.nft + 1)

\* A completion that is already successful: what ensure_connected returns
\* for a node that is connected ("return immediately (no I/O)").
ReadyFuture(s, node) ==
    LET f == s.nft + 1 IN
    Ret(FutSet(NewOp(s, "ready", node, "ok"), f, "result",
               Val("True", f), "loop"), f)

\* Faulty variant: on_connect always starts a native connect.
ClusterOnConnect_always(s) ==
    Ret([ConnectWrapped(s) EXCEPT !.connect_ft["cluster"] = s.nft + 1],
        s.nft + 1)

\* Cluster.on_connect: connected -> done at once; a connect in flight ->
\* that same future; otherwise a new native connect.
ClusterOnConnect(s) ==
    IF s.conn["cluster"] # 0 THEN ReadyFuture(s, "cluster")
    ELSE IF s.connect_ft["cluster"] # 0
            /\ s.op[s.connect_ft["cluster"]].st = "pending"
         THEN Ret(s, s.connect_ft["cluster"])
         ELSE Ret([ConnectWrapped(s) EXCEPT !.connect_ft["cluster"] = s.nft + 1],
                  s.nft + 1)

\* inject_bucket_open_callbacks.wrapped_fn: the native open_bucket, chained
\* on the cluster's connect when the bucket has no connection yet.
BucketOpenWrapped(s) ==
    LET f == s.nft + 1
        s1 == NewOp(s, "open", "bucket", "ok") IN
    IF s1.conn["bucket"] = 0
    THEN LET r == ClusterOnConnect(s1) IN AddDoneCallback(r.s, r.f, f)
    ELSE call_async_fn(s1, f)

\* Bucket.on_connect (and Scope._connect_bucket, which returns it).
BucketOnConnect(s) ==
    IF s.connected THEN ReadyFuture(s, "bucket")
    ELSE IF s.connect_ft["bucket"] # 0
            /\ s.op[s.connect_ft["bucket"]].st = "pending"
         THEN Ret(s, s.connect_ft["bucket"])
         ELSE Ret([BucketOpenWrapped(s) EXCEPT !.connect_ft["bucket"] = s.nft + 1],
                  s.nft + 1)

\* Faulty variant: every operation opens the bucket itself instead of asking for the
\* bucket's one connect future.
inject_callbacks_own_connect(s, c, args) ==
    LET f == s.nft + 1
        s1 == NewOp(s, "kv", c, args) IN
    IF s1.conn[c] = 0
    THEN AddDoneCallback(BucketOpenWrapped(s1), s1.nft + 1, f)
    ELSE call_async_fn(s1, f)

\* AsyncWrapper.inject_callbacks.wrapped_fn on collection c.
inject_callbacks(s, c, args) ==
    LET f == s.nft + 1
        s1 == NewOp(s, "kv", c, args) IN
    IF s1.conn[c] = 0
    THEN LET r == BucketOnConnect(s1) IN AddDoneCallback(r.s, r.f, f)
    ELSE call_async_fn(s1, f)

\* AsyncWrapper.inject_callbacks_and_decode.wrapped_fn on collection c.  With
\* the connection unset it starts the bucket connect and then evaluates
\* cls._chain_futures, an attribute AsyncWrapper does not have: wrapped_fn
\* raises AttributeError, no done-callback is registered and no future is
\* returned.
inject_callbacks_and_decode(s, c, args) ==
    LET f == s.nft + 1
        s1 == NewOp(s, "kvdec", c, args) IN
    IF s1.conn[c] = 0
    THEN LET r == BucketOnConnect(s1) IN [r.s EXCEPT !.op[f].raised = TRUE]
    ELSE call_async_fn(s1, f)

\* AsyncWrapper.inject_cluster_callbacks.wrapped_fn on the cluster.
inject_cluster_callbacks(s, chain_connection, args) ==
    LET f == s.nft + 1
        s1 == NewOp(s, IF chain_connection THEN "cchain" ELSE "cop",
                    "cluster", args) IN
    IF s1.conn["cluster"] = 0
    THEN IF chain_connection
         THEN LET r == ClusterOnConnect(s1) IN AddDoneCallback(r.s, r.f, f)
         ELSE FutSet(s1, f, "exception", Val("MissingConnection", f), "loop")
    ELSE call_async_fn(s1, f)

\* Faulty variant: the connection is not checked before the native call.
mgmt_inject_callbacks_unchecked(s, args) ==
    call_async_fn(NewOp(s, "mgmt", "cluster", args), s.nft + 1)

\* AsyncMgmtWrapper.inject_callbacks.wrapped_fn on a manager built from the
\* cluster's connection.
mgmt_inject_callbacks(s, args) ==
    LET f == s.nft + 1
        s1 == NewOp(s, "mgmt", "cluster", args) IN
    IF s1.conn["cluster"] = 0
    THEN FutSet(s1, f, "exception", Val("MissingConnection", f), "loop")
    ELSE call_async_fn(s1, f)

\* AsyncWrapper.chain_connect_futures, the done-callback of the cluster
\* connect that a bucket open waits for.
chain_connect_futures(s, f, cft) ==
    IF s.op[cft].st = "cancelled" THEN FutCancel(s, f)
    ELSE IF s.op[cft].st = "exception"
         THEN FutSet(s, f, "exception", s.op[cft].val, "loop")
         ELSE call_async_fn(
                [s EXCEPT !.conn["bucket"] = s.conn["cluster"]], f)

\* Scope._set_connection followed by Collection._set_connection.
SetConnection(s, c) ==
    [s EXCEPT !.conn["scope"] = s.conn["bucket"],
              !.conn[c] = s.conn["bucket"]]

\* Faulty variant: the failure of the connect is not looked at.
chain_futures_ignores_failure(s, f, cft, set_connection) ==
    IF s.op[cft].st = "cancelled" THEN FutCancel(s, f)
    ELSE call_async_fn(
            IF set_connection THEN SetConnection(s, s.op[f].node) ELSE s, f)

\* Faulty variant: a cancelled connect returns without touching the operation.
chain_futures_drops_cancel(s, f, cft, set_connection) ==
    IF s.op[cft].st = "cancelled" THEN s
    ELSE IF s.op[cft].st = "exception"
         THEN FutSet(s, f, "exception", s.op[cft].val, "loop")
         ELSE call_async_fn(
                IF set_connection THEN SetConnection(s, s.op[f].node) ELSE s, f)

\* Faulty variant: the connection is stored before the connect's outcome is
\* looked at.
chain_futures_sets_on_failure(s, f, cft, set_connection) ==
    LET s1 == IF set_connection THEN SetConnection(s, s.op[f].node) ELSE s IN
    IF s.op[cft].st = "cancelled" THEN FutCancel(s1, f)
    ELSE IF s.op[cft].st = "exception"
         THEN FutSet(s1, f, "exception", s.op[cft].val, "loop")
         ELSE call_async_fn(s1, f)

\* AsyncWrapper.chain_futures, the done-callback of the connect future cft
\* that operation f waits for.
chain_futures(s, f, cft, set_connection) ==
    IF s.op[cft].st = "cancelled" THEN FutCancel(s, f)
    ELSE IF s.op[cft].st = "exception"
         THEN FutSet(s, f, "exception", s.op[cft].val, "loop")
         ELSE call_async_fn(
                IF set_connection THEN SetConnection(s, s.op[f].node) ELSE s, f)

----------------------------------------------------------------------------
\* The callbacks the engine invokes on its own thread.

\* decode_value(transcoder, value, flags): raises when the transcoder cannot
\* decode the stored bytes.
decode_value(dec) == IF dec THEN "value" ELSE "raise"

\* on_ok of each wrapper, given a raw result that the transcoder can (dec)
\* or cannot decode.  It converts the raw result and hands the resolution
\* of the future to the loop with call_soon_threadsafe.
on_ok(s, f, dec) ==
    LET k == s.op[f].kind
        resolve(v) == Append(s.loopq, Handle("set_result", f, v, 0)) IN
    CASE k = "connect" ->
            [s EXCEPT !.conn["cluster"] = f,
                      !.loopq = resolve(Val("True", f))]
      [] k = "open" ->
            [s EXCEPT !.connected = TRUE,
                      !.loopq = resolve(Val("True", f))]
      [] k = "kvdec" ->
            IF decode_value(dec) = "raise"
            THEN [s EXCEPT !.op[f].escaped = TRUE]
            ELSE [s EXCEPT !.loopq = resolve(Val("result", f))]
      [] OTHER ->
            [s EXCEPT !.loopq = resolve(Val("result", f))]

\* Faulty variant: the handle of the failed attempt is cached.
on_err_caches(s, f) ==
    [s EXCEPT !.conn["cluster"] = IF s.op[f].kind = "connect" THEN f ELSE @,
              !.loopq = Append(@, Handle("set_exception", f,
                                        Val("EngineError", f), 0))]

\* Faulty variant: the future is failed directly on the engine's thread.
on_err_direct(s, f) ==
    FutSet(s, f, "exception", Val("EngineError", f), "engine")

\* on_err of each wrapper: ErrorMapperNew.build_exception, then the
\* resolution is handed to the loop with call_soon_threadsafe.
on_err(s, f) ==
    [s EXCEPT !.loopq = Append(@, Handle("set_exception", f,
                                        Val("EngineError", f), 0))]

\* The loop runs one handle of its ready queue.
RunHandle(s, h) ==
    CASE h.t = "set_result" -> FutSet(s, h.f, "result", h.v, "loop")
      [] h.t = "set_exception" -> FutSet(s, h.f, "exception", h.v, "loop")
      [] h.t = "chain" ->
            LET s1 == [s EXCEPT !.op[h.f].chain = "ran"] IN
            IF s.op[h.f].kind = "open"
            THEN chain_connect_futures(s1, h.f, h.c)
            ELSE chain_futures(s1, h.f, h.c, s.op[h.f].kind = "kv")

----------------------------------------------------------------------------
\* The streaming query request (couchbase/logic/n1ql.py).

\* Engine error codes: two the error-code table knows, and one it does not.
Codes == {8, 101, 9999}

\* The raw_result of the response that ends a stream.
\*   has_exception  the flag _set_metadata looks at
\*   exc            the engine error: none, or with / without error context
\*   exc_info       an exc_info record (with an error_code) is present
\*   code           the error code of exc or of exc_info
NoResponse == [has_exception |-> FALSE, exc |-> "none", exc_info |-> FALSE,
               code |-> 0, sent |-> FALSE]

OkResponse == [NoResponse EXCEPT !.sent = TRUE]

ErrResponse(form, c) ==
    [has_exception |-> TRUE,
     exc |-> IF form = "info" THEN "none" ELSE form,
     exc_info |-> (form = "info"),
     code |-> c, sent |-> TRUE]

\* The responses the engine can end a stream with: success, or an error in
\* one of its three forms.
Responses ==
    {OkResponse} \cup {ErrResponse(form, c) : form \in {"ctx", "noctx", "info"},
                                              c \in Codes}

\* An item of the row channel: row number i, or the final response.
Item(t, i, r) == [t |-> t, i |-> i, r |-> r]

\* QueryRequestLogic.__init__
NewQueryRequest ==
    [started_streaming |-> FALSE, done_streaming |-> FALSE,
     metadata |-> "None", streaming_result |-> 0, raw_rows |-> <<>>]

\* queue.Queue(): maxsize 0, which is a queue without a capacity.
RawRowsMaxsize == 0

\* queue.Queue.full()
QueueFull(q, maxsize) == maxsize > 0 /\ Len(q) >= maxsize

\* The environment of the request.
\*   nsubmit     calls of the native n1ql_query
\*   sent, term  rows the engine has delivered for the current native query,
\*               and the response it ended the stream with
\*   got, exc    rows the consumer has received in order, and the exception
\*               its retrieval raised
\*   mdexc       what _set_metadata raised
\*   ntrig, late explicit submission triggers, and one was made when done
\*   mdret, mdearly  what metadata() returned, and it was called before done
NewQueryEnv ==
    [nsubmit |-> 0, sent |-> 0, term |-> NoResponse, got |-> <<>>,
     exc |-> "none", mdexc |-> "none", ntrig |-> 0, late |-> FALSE,
     mdret |-> "nocall", mdearly |-> FALSE]

CurQ == [req |-> qreq, env |-> qenv]

ApplyQ(q) ==
    /\ qreq' = q.req
    /\ qenv' = q.env
    /\ UNCHANGED wvars
    /\ UNCHANGED pvars

\* Faulty variant: a request that is done is submitted again.
_submit_query_unguarded(q) ==
    [q EXCEPT !.req.started_streaming = TRUE,
              !.req.streaming_result = q.env.nsubmit + 1,
              !.env.nsubmit = @ + 1,
              !.env.sent = 0,
              !.env.term = NoResponse]

\* QueryRequestLogic._submit_query: returns when the stream is done,
\* otherwise calls the native n1ql_query, which starts a new stream.
_submit_query(q) ==
    IF q.req.done_streaming THEN q
    ELSE [q EXCEPT !.req.started_streaming = TRUE,
                   !.req.streaming_result = q.env.nsubmit + 1,
                   !.env.nsubmit = @ + 1,
                   !.env.sent = 0,
                   !.env.term = NoResponse]

\* QueryRequestLogic.metadata: returns the field, set or not.
metadata(q) == q.req.metadata

\* ErrorMapper.parse_error_context: the class for an engine error that
\* carries a context.
parse_error_context(resp) ==
    MapGet(PYCBC_ERROR_MAP, resp.code, "CouchbaseException")

\* Faulty variant: a code the table does not know is mapped to the internal error.
_handle_query_result_exc_internal(resp) ==
    IF resp.exc = "none" /\ resp.exc_info THEN "ValueError"
    ELSE IF resp.exc = "none" THEN "AttributeError"
    ELSE IF resp.exc = "ctx" THEN parse_error_context(resp)
    ELSE MapGet(PYCBC_ERROR_MAP, resp.code, "InternalSDKException")

\* QueryRequestLogic._handle_query_result_exc: the class of the exception
\* that leaves it.  With exc_info only, the comprehension
\* {k: v for k, v in exc_info ...} iterates the keys of the dict and unpacks
\* each key string into two names: ValueError.  With neither exc nor
\* exc_info, base_exc.error_context() is called on None: AttributeError.
_handle_query_result_exc(resp) ==
    IF resp.exc = "none" /\ resp.exc_info THEN "ValueError"
    ELSE IF resp.exc = "none" THEN "AttributeError"
    ELSE LET excptn == IF resp.exc = "ctx"
                       THEN parse_error_context(resp)
                       ELSE MapGet(PYCBC_ERROR_MAP, resp.code, "CouchbaseException")
         IN IF excptn = "None"
            THEN MapGet(PYCBC_ERROR_MAP, InternalSDKCode, "CouchbaseException")
            ELSE excptn

\* Faulty variant: has_exception is not looked at.
_set_metadata_unchecked(q, resp) ==
    [q EXCEPT !.req.metadata = "QueryMetaData", !.env.mdexc = "none"]

\* QueryRequestLogic._set_metadata: raises for a response flagged
\* has_exception, otherwise stores the metadata.
_set_metadata(q, resp) ==
    IF resp.has_exception
    THEN [q EXCEPT !.env.mdexc = _handle_query_result_exc(resp)]
    ELSE [q EXCEPT !.req.metadata = "QueryMetaData", !.env.mdexc = "none"]

\* One retrieval by the consumer (the iteration protocol of the request).
\* The first attempt submits the query.  A row is handed to the consumer;
\* the final response ends the stream: the state becomes DONE, the metadata
\* is set, and an error is raised from the retrieval as a typed exception
\* (any other fault wrapped as the internal SDK error).
QueryNext(q) ==
    IF ~q.req.started_streaming THEN _submit_query(q)
    ELSE LET item == Head(q.req.raw_rows)
             q1 == [q EXCEPT !.req.raw_rows = Tail(@)] IN
         IF item.t = "row"
         THEN [q1 EXCEPT !.env.got = Append(@, item.i)]
         ELSE LET q2 == _set_metadata([q1 EXCEPT !.req.done_streaming = TRUE],
                                     item.r) IN
              [q2 EXCEPT !.env.exc =
                    IF q2.env.mdexc = "none" \/ q2.env.mdexc \in CouchbaseClasses
                    THEN q2.env.mdexc
                    ELSE PYCBC_ERROR_MAP[InternalSDKCode]]

----------------------------------------------------------------------------
\* The search index manager (couchbase/management/logic/search_index_logic.py,
\* acouchbase/management/search.py) and its error mapping.

\* The index the calls are about.
IndexNames == {"test-index"}

\* The operations of the manager that the calls use.
SearchOps == {"upsert_index", "drop_index", "get_index"}

\* The parts an engine error message is made of: a text that the first
\* pattern of _ERROR_MAPPING matches, one that the second matches, and one
\* that neither matches.
MsgParts == {"index not found",
             "CreateIndex, Prepare failed, err: Exceeds indexes limit",
             "internal error"}

\* The messages: one part, or the two texts that patterns match one after
\* the other, in either order.
Messages ==
    {<<p>> : p \in MsgParts}
    \cup {<<"index not found",
            "CreateIndex, Prepare failed, err: Exceeds indexes limit">>,
          <<"CreateIndex, Prepare failed, err: Exceeds indexes limit",
            "index not found">>}

\* re.match of a pattern ".*text.*" (or ".*text") on a message: the text
\* occurs in the message.
re_match(pattern, msg) == \E i \in 1..Len(msg) : msg[i] = pattern

\* Faulty variant: the patterns in the other order.
_ERROR_MAPPING_reversed ==
    << [pattern |-> "CreateIndex, Prepare failed, err: Exceeds indexes limit",
        cls |-> "QuotaLimitedException"],
       [pattern |-> "index not found",
        cls |-> "SearchIndexNotFoundException"] >>

\* SearchIndexManagerLogic._ERROR_MAPPING, in declaration order.
_ERROR_MAPPING ==
    << [pattern |-> "index not found",
        cls |-> "SearchIndexNotFoundException"],
       [pattern |-> "CreateIndex, Prepare failed, err: Exceeds indexes limit",
        cls |-> "QuotaLimitedException"] >>

\* The class of the first pattern of the mapping, from position i on, that
\* matches the message; CouchbaseException when none does.
RECURSIVE FirstMatch(_, _, _)
FirstMatch(mapping, msg, i) ==
    IF i > Len(mapping) THEN "CouchbaseException"
    ELSE IF re_match(mapping[i].pattern, msg) THEN mapping[i].cls
         ELSE FirstMatch(mapping, msg, i + 1)

\* ErrorMapperNew.build_exception(exc, mapping=...): the patterns of the
\* mapping are tried in declaration order and the first that matches
\* decides the class.
build_exception(msg, mapping) == FirstMatch(mapping, msg, 1)

\* build_mgmt_exception
build_mgmt_exception(msg, error_map) == build_exception(msg, error_map)

\* The search service holds no index; no call has been made.
\*   indexes  the indexes the search service holds
\*   req      future id -> the manager operation, the index, whether the
\*            index was missing when the engine served it, and the message
\*            of the error the engine reported
\*   ncalls   calls made on the manager
NoReq == [op_type |-> "none", index |-> "none", missing |-> FALSE, msg |-> <<>>]

NewSearch == [indexes |-> {}, req |-> [f \in FtIds |-> NoReq], ncalls |-> 0]

\* upsert_index / drop_index / get_index of acouchbase's SearchIndexManager:
\* AsyncMgmtWrapper.inject_callbacks with _ERROR_MAPPING as its error_map.
SearchManagerCall(s, op_type, index) ==
    LET f == s.nft + 1
        s1 == mgmt_inject_callbacks(s, "ok") IN
    [s1 EXCEPT !.search.req[f] = [NoReq EXCEPT !.op_type = op_type,
                                               !.index = index],
               !.search.ncalls = @ + 1]

\* on_err of AsyncMgmtWrapper.inject_callbacks for an engine error with
\* message msg: build_mgmt_exception with the manager's error_map, then the
\* resolution is handed to the loop.
mgmt_on_err(s, f, msg) ==
    [s EXCEPT !.search.req[f].msg = msg,
              !.loopq = Append(@, Handle("set_exception", f,
                                 Val(build_mgmt_exception(msg, _ERROR_MAPPING), f), 0))]

----------------------------------------------------------------------------
\* Argument validation of the blocking API (couchbase/logic/collection.py,
\* couchbase/management/logic/search_index_logic.py).  Every function either
\* raises before its native call or makes the call with its final arguments.

\* no native call was made
NoArgs == [none |-> TRUE]

Raise(e) == [raised |-> e, sent |-> FALSE, args |-> NoArgs]
Send(args) == [raised |-> "none", sent |-> TRUE, args |-> args]

\* kwargs.get("project"): None, or a list of the given length.
NoProject == -1
Projects == {NoProject} \cup (0..MaxProject)

\* Faulty variant: a list of 16 projections is rejected as well.
get_rejects_16(project) ==
    IF project # NoProject /\ project >= 16
    THEN Raise("InvalidArgumentException")
    ELSE Send([project |-> project])

\* CollectionLogic.get
get(project) ==
    IF project # NoProject /\ project > 16
    THEN Raise("InvalidArgumentException")
    ELSE Send([project |-> project])

\* expiry: 0 stands for no expiry (None), any other value for a duration.
Expiries == {0, 5}

\* CollectionLogic.replace
replace(expiry, preserve_expiry) ==
    IF expiry # 0 /\ preserve_expiry = TRUE
    THEN Raise("InvalidArgumentException")
    ELSE Send([expiry |-> expiry, preserve_expiry |-> preserve_expiry])

SubDocOps == {"DICT_ADD", "REPLACE", "DICT_UPSERT"}

\* Faulty variant: the sub-document call is made before the store semantics
\* are checked.
mutate_in_sends_first(spec_ops, expiry, preserve_expiry, semantics, insert_doc, upsert_doc, replace_doc) ==
    IF "DICT_ADD" \in spec_ops /\ preserve_expiry = TRUE
    THEN Raise("InvalidArgumentException")
    ELSE IF "REPLACE" \in spec_ops /\ expiry # 0 /\ preserve_expiry = TRUE
    THEN Raise("InvalidArgumentException")
    ELSE IF (insert_doc /\ (upsert_doc \/ replace_doc))
            \/ (upsert_doc /\ (insert_doc \/ replace_doc))
    THEN [Raise("InvalidArgumentException") EXCEPT !.sent = TRUE]
    ELSE Send([spec_ops |-> spec_ops, expiry |-> expiry,
               preserve_expiry |-> preserve_expiry,
               store_semantics |-> IF replace_doc THEN "REPLACE"
                                   ELSE IF upsert_doc THEN "UPSERT"
                                   ELSE IF insert_doc THEN "INSERT" ELSE semantics])

\* A store_semantics entry of the options object; "none" when it has none.
StoreSemantics == {"none", "INSERT", "UPSERT", "REPLACE"}

\* Faulty variant: a store_semantics given in the options object is kept.
store_semantics_option_wins(semantics, insert_doc, upsert_doc, replace_doc) ==
    IF semantics # "none" THEN semantics
    ELSE IF replace_doc THEN "REPLACE"
    ELSE IF upsert_doc THEN "UPSERT"
    ELSE IF insert_doc THEN "INSERT" ELSE "none"

\* final_args["store_semantics"] after the three assignments of mutate_in.
store_semantics(semantics, insert_doc, upsert_doc, replace_doc) ==
    LET s1 == IF insert_doc THEN "INSERT" ELSE semantics
        s2 == IF upsert_doc THEN "UPSERT" ELSE s1 IN
    IF replace_doc THEN "REPLACE" ELSE s2

\* CollectionLogic.mutate_in; semantics is the store_semantics of the
\* options object; insert_doc, upsert_doc and replace_doc say whether the
\* keyword was given (is not None).
mutate_in(spec_ops, expiry, preserve_expiry, semantics, insert_doc, upsert_doc, replace_doc) ==
    IF "DICT_ADD" \in spec_ops /\ preserve_expiry = TRUE
    THEN Raise("InvalidArgumentException")
    ELSE IF "REPLACE" \in spec_ops /\ expiry # 0 /\ preserve_expiry = TRUE
    THEN Raise("InvalidArgumentException")
    ELSE IF insert_doc /\ (upsert_doc \/ replace_doc)
    THEN Raise("InvalidArgumentException")
    ELSE IF upsert_doc /\ (insert_doc \/ replace_doc)
    THEN Raise("InvalidArgumentException")
    ELSE Send([spec_ops |-> spec_ops, expiry |-> expiry,
               preserve_expiry |-> preserve_expiry,
               store_semantics |-> store_semantics(semantics, insert_doc,
                                                   upsert_doc, replace_doc)])

\* A value given for delta or initial: None, a plain integer, or an
\* instance of DeltaValue or SignedInt64.
NoneValue == [t |-> "None", n |-> 0]
PlainInts == {0, 5, 100}
CounterValues ==
    {NoneValue} \cup [t : {"int"}, n : PlainInts]
                \cup [t : {"DeltaValue", "SignedInt64"}, n : {1, 5}]

\* Python truth value: None and the integer 0 are false, an instance of
\* DeltaValue or SignedInt64 is true.
truthy(v) == ~(v.t = "None" \/ (v.t = "int" /\ v.n = 0))

\* DeltaValue.is_valid / SignedInt64.is_valid: an instance of the class.
is_valid(cls, v) == v.t = cls

\* CollectionLogic._validate_delta_initial
_validate_delta_initial(delta, initial) ==
    IF delta.t # "None" /\ ~is_valid("DeltaValue", delta)
    THEN "InvalidArgumentException"
    ELSE IF initial.t # "None" /\ ~is_valid("SignedInt64", initial)
    THEN "InvalidArgumentException"
    ELSE "none"

\* CollectionLogic.increment and CollectionLogic.decrement: a value that is
\* false (not given, None, 0) is replaced by the default before validation.
counter(delta, initial) ==
    LET i1 == IF ~truthy(initial) THEN [t |-> "SignedInt64", n |-> 0] ELSE initial
        d1 == IF ~truthy(delta) THEN [t |-> "DeltaValue", n |-> 1] ELSE delta
        e == _validate_delta_initial(d1, i1) IN
    IF e # "none" THEN Raise(e) ELSE Send([initial |-> i1, delta |-> d1])

\* An index name: None, the empty string, or a name.
NoneName == "<None>"
NameArgs == {NoneName, ""} \cup IndexNames

\* couchbase._utils.is_null_or_empty
is_null_or_empty(v) == v = NoneName \/ v = ""

\* A SearchIndex argument: None, or an index with its three required fields.
NoIndex == [none |-> TRUE, name |-> "", idx_type |-> "", source_type |-> ""]
IndexArgs ==
    {NoIndex} \cup [none : {FALSE}, name : {""} \cup IndexNames,
                    idx_type : {"", "fulltext-index"},
                    source_type : {"", "couchbase"}]

\* SearchIndex.is_valid
index_is_valid(index) ==
    ~(is_null_or_empty(index.name) \/ is_null_or_empty(index.idx_type)
      \/ is_null_or_empty(index.source_type))

\* SearchIndexManagerLogic.upsert_index
upsert_index(index) ==
    IF index.none THEN Raise("InvalidArgumentException")
    ELSE IF ~index_is_valid(index) THEN Raise("InvalidArgumentException")
    ELSE Send([index |-> index])

\* SearchIndexManagerLogic.drop_index, get_index and the other operations
\* that take an index name.
index_name_op(index_name) ==
    IF is_null_or_empty(index_name) THEN Raise("InvalidArgumentException")
    ELSE Send([index_name |-> index_name])

\* The calls of the blocking API, with their arguments.
BlockingCalls ==
    [fn : {"get"}, project : Projects]
    \cup [fn : {"replace"}, expiry : Expiries, preserve_expiry : BOOLEAN]
    \cup [fn : {"mutate_in"}, spec_ops : SUBSET SubDocOps, expiry : Expiries,
           preserve_expiry : BOOLEAN, semantics : StoreSemantics,
           insert_doc : BOOLEAN,
           upsert_doc : BOOLEAN, replace_doc : BOOLEAN]
    \cup [fn : {"increment", "decrement"}, delta : CounterValues,
           initial : CounterValues]
    \cup [fn : {"upsert_index"}, index : IndexArgs]
    \cup [fn : {"drop_index", "get_index"}, index_name : NameArgs]

\* The outcome of one call.
RunCall(c) ==
    CASE c.fn = "get" -> get(c.project)
      [] c.fn = "replace" -> replace(c.expiry, c.preserve_expiry)
      [] c.fn = "mutate_in" ->
            mutate_in(c.spec_ops, c.expiry, c.preserve_expiry, c.semantics,
                      c.insert_doc,
                      c.upsert_doc, c.replace_doc)
      [] c.fn \in {"increment", "decrement"} -> counter(c.delta, c.initial)
      [] c.fn = "upsert_index" -> upsert_index(c.index)
      [] c.fn \in {"drop_index", "get_index"} -> index_name_op(c.index_name)

\* Before any call.
NoCall == [c |-> [fn |-> "none"], r |-> Raise("none")]

----------------------------------------------------------------------------
\* N1QLQuery (couchbase/logic/n1ql.py): the query parameters as a dict.

\* Python dicts as functions.
EmptyDict == [k \in {} |-> 0]
Pop(d, k) == [x \in DOMAIN d \ {k} |-> d[x]]
Get(d, k, default) == IF k \in DOMAIN d THEN d[k] ELSE default
\* d.update(e)
Update(d, e) == e @@ d
\* a dict with the entry k: v, or without it
Entry(present, k, v) == IF present THEN k :> v ELSE EmptyDict

\* json.dumps(v): the JSON text of v.
json_dumps(v) == [json |-> v]

\* f'${k}'
Dollar(k) ==
    CASE k = "atype" -> "$atype"
      [] k = "btype" -> "$btype"
      [] OTHER -> "$"

\* N1QLQuery._VALID_OPTS: the recognised option names.
_VALID_OPTS ==
    {"timeout", "read_only", "scan_consistency", "consistent_with", "adhoc",
     "client_context_id", "max_parallelism", "pipeline_batch", "pipeline_cap",
     "profile", "query_context", "raw", "scap_cap", "scap_wait", "metrics",
     "flex_index", "preserve_expiry", "positional_parameters",
     "named_parameters"}

\* The QueryOptions objects a query is created with.
QueryOptionsObjects ==
    {Entry(p, "positional_parameters", <<"abcdefg">>)
        @@ Entry(n, "named_parameters", ("atype" :> "abcdefg") @@ ("btype" :> "hotel"))
        @@ Entry(r, "read_only", FALSE) : p \in BOOLEAN, n \in BOOLEAN, r \in BOOLEAN}

\* The keyword arguments a query is created with.
Keywords ==
    {Entry(a, "atype", "airline") @@ Entry(r, "read_only", TRUE) :
        a \in BOOLEAN, r \in BOOLEAN}

\* What follows the statement: positional parameters and at most one
\* QueryOptions object, in any order.
PositionalValues == {"airline", "united"}
OptItem(d) == [opt |-> TRUE, d |-> d, v |-> ""]
ValItem(v) == [opt |-> FALSE, d |-> EmptyDict, v |-> v]
ValSeqs == UNION {[1..n -> {ValItem(v) : v \in PositionalValues}] : n \in 0..MaxPositional}
InsertAt(s, i, x) ==
    [j \in 1..(Len(s) + 1) |-> IF j < i THEN s[j] ELSE IF j = i THEN x ELSE s[j - 1]]
OptionArgs ==
    ValSeqs \cup UNION {{InsertAt(s, i, OptItem(d)) :
                            i \in 1..(Len(s) + 1), d \in QueryOptionsObjects} :
                        s \in ValSeqs}

\* list.remove(x): drops the first element equal to x.
RECURSIVE Remove(_, _)
Remove(s, x) ==
    IF s = <<>> THEN <<>>
    ELSE IF Head(s) = x THEN Tail(s) ELSE <<Head(s)>> \o Remove(Tail(s), x)

\* "for o in opts: if isinstance(o, QueryOptions): opt = o; opts.remove(o)":
\* the loop goes on by index over the list it shortens.
RECURSIVE SplitOptions(_, _, _)
SplitOptions(opts, i, opt) ==
    IF i > Len(opts) THEN [opt |-> opt, opts |-> opts]
    ELSE IF opts[i].opt THEN SplitOptions(Remove(opts, opts[i]), i + 1, opts[i].d)
    ELSE SplitOptions(opts, i + 1, opt)

\* Faulty variant: a field of the options object wins over the keyword.
merge_args_options_win(opt, kwargs) == Update(kwargs, opt)

\* "args = opt.copy(); args.update(kwargs)"
merge_args(opt, kwargs) == Update(opt, kwargs)

\* Faulty variant: the list of the options object wins when it has one.
positional_parameters_options_win(args, opts) ==
    IF "positional_parameters" \in DOMAIN args THEN args["positional_parameters"]
    ELSE [i \in 1..Len(opts) |-> opts[i].v]

\* "positional_parameters = args.pop(...); if opts and len(opts) > 0:
\* positional_parameters = opts"
positional_parameters(args, opts) ==
    IF Len(opts) > 0 THEN [i \in 1..Len(opts) |-> opts[i].v]
    ELSE Get(args, "positional_parameters", <<>>)

\* The named parameters: those of the options object, overridden by every
\* key of args that is not a recognised option.
named_parameters(args) ==
    LET new_keys == {k \in DOMAIN args : k \notin _VALID_OPTS} IN
    Update(Get(args, "named_parameters", EmptyDict), [k \in new_keys |-> args[k]])

\* N1QLQuery.__init__ with _add_pos_args and _set_named_args.
N1QLQueryInit(statement, pos, named) ==
    ("statement" :> statement)
      @@ Entry(Len(pos) > 0, "positional_parameters",
               [i \in 1..Len(pos) |-> json_dumps(pos[i])])
      @@ Entry(DOMAIN named # {}, "named_parameters",
               [k \in {Dollar(x) : x \in DOMAIN named} |->
                    json_dumps(named[CHOOSE x \in DOMAIN named : Dollar(x) = k])])

\* A value assigned to N1QLQuery.consistency: a QueryScanConsistency member,
\* a string, or something else.
ConsistencyNames == {"not_bounded", "request_plus", "at_plus"}
ConsistencyValues ==
    [t : {"enum"}, v : ConsistencyNames]
      \cup [t : {"str"}, v : ConsistencyNames \cup {"bogus"}]
      \cup [t : {"other"}, v : {""}]

\* The result of a setter: the params after it and what it raised.
SetOk(params) == [params |-> params, raised |-> "none"]
SetRaise(params, e) == [params |-> params, raised |-> e]

\* N1QLQuery.consistency (getter)
consistency(params) ==
    LET value == Get(params, "scan_consistency", "None") IN
    IF value = "None" /\ "mutation_state" \in DOMAIN params THEN "at_plus"
    ELSE IF value = "None" THEN "not_bounded"
    ELSE IF value = "request_plus" THEN "request_plus" ELSE "not_bounded"

\* Faulty variant: AT_PLUS is rejected whatever the query holds.
consistency_setter_strict(params, value) ==
    IF value.t \in {"enum", "str"} /\ value.v = "at_plus"
    THEN SetRaise(params, "InvalidArgumentException")
    ELSE IF "mutation_state" \in DOMAIN params THEN SetOk(params)
    ELSE IF value.t \in {"enum", "str"} /\ value.v \in ConsistencyNames
    THEN SetOk(Update(params, "scan_consistency" :> value.v))
    ELSE SetRaise(params, "InvalidArgumentException")

\* Faulty variant: the value is stored whether or not the query holds a
\* mutation state.
consistency_setter_unguarded(params, value) ==
    IF value.t \in {"enum", "str"} /\ value.v \in ConsistencyNames
    THEN IF value.v = "at_plus"
         THEN SetRaise(params, "InvalidArgumentException")
         ELSE SetOk(Update(params, "scan_consistency" :> value.v))
    ELSE SetRaise(params, "InvalidArgumentException")

\* N1QLQuery.consistency (setter)
consistency_setter(params, value) ==
    IF "mutation_state" \notin DOMAIN params
    THEN IF value.t = "enum"
         THEN IF value.v = "at_plus"
              THEN SetRaise(params, "InvalidArgumentException")
              ELSE SetOk(Update(params, "scan_consistency" :> value.v))
         ELSE IF value.t = "str" /\ value.v \in ConsistencyNames
         THEN IF value.v = "at_plus"
              THEN SetRaise(params, "InvalidArgumentException")
              ELSE SetOk(Update(params, "scan_consistency" :> value.v))
         ELSE SetRaise(params, "InvalidArgumentException")
    ELSE SetOk(params)

\* A value assigned to consistent_with: a MutationState with its tokens, or
\* something that is not a MutationState.
Tokens == 1..MaxTokens
MutationStates == [ms : BOOLEAN, _sv : SUBSET Tokens]

\* list(value._sv): the tokens of the set, each once, in some order.
ListsOf(S) ==
    {s \in UNION {[1..n -> S] : n \in {Cardinality(S)}} :
        \A i, j \in 1..Len(s) : i # j => s[i] # s[j]}

\* Faulty variant: the scan_consistency entry is left in place.
consistent_with_setter_keeps(params, value, tokens) ==
    IF consistency(params) # "not_bounded" THEN SetRaise(params, "TypeError")
    ELSE IF ~(value.ms /\ Cardinality(value._sv) > 0)
    THEN SetRaise(params, "TypeError")
    ELSE SetOk(Update(params, "mutation_state" :> tokens))

\* N1QLQuery.consistent_with (setter); tokens is list(value._sv).
consistent_with_setter(params, value, tokens) ==
    IF consistency(params) # "not_bounded" THEN SetRaise(params, "TypeError")
    ELSE IF ~(value.ms /\ Cardinality(value._sv) > 0)
    THEN SetRaise(params, "TypeError")
    ELSE SetOk(Update(Pop(params, "scan_consistency"), "mutation_state" :> tokens))

\* The QueryOptions objects that say how consistent the query is to be.
ConsistencyObjects ==
    {Entry(n, "named_parameters", ("atype" :> "abcdefg") @@ ("btype" :> "hotel"))
        @@ Entry(r, "read_only", FALSE)
        @@ Entry(sc # "none", "scan_consistency", [t |-> "enum", v |-> sc])
        @@ Entry(cw, "consistent_with", [ms |-> TRUE, _sv |-> {1}]) :
        n \in BOOLEAN, r \in BOOLEAN, sc \in {"none"} \cup ConsistencyNames,
        cw \in BOOLEAN}

ConsistencyOptionArgs == {<<OptItem(d)>> : d \in ConsistencyObjects}

\* "setattr(query, target, transform(v))" for the recognised option k.
apply_option(params, k, v) ==
    CASE k = "read_only" -> SetOk(Update(params, "readonly" :> v))
      [] k = "scan_consistency" -> consistency_setter(params, v)
      [] k = "consistent_with" ->
            consistent_with_setter(params, v, CHOOSE s \in ListsOf(v._sv) : TRUE)
      [] OTHER -> SetOk(params)

\* "for k, v in ((k, args[k]) for k in (args.keys() & cls._VALID_OPTS))":
\* the options are applied in the order the set yields them; a setter that
\* raises ends the loop.
RECURSIVE apply_options(_, _, _)
apply_options(r, args, order) ==
    IF order = <<>> \/ r.raised # "none" THEN r
    ELSE apply_options(apply_option(r.params, Head(order), args[Head(order)]),
                       args, Tail(order))

\* The recognised options left in args once the parameters are popped: the
\* keys of the set the loop goes through.
recognised_options(options, kwargs) ==
    (DOMAIN merge_args(SplitOptions(options, 1, EmptyDict).opt, kwargs)
        \cap _VALID_OPTS) \ {"positional_parameters", "named_parameters"}

\* N1QLQuery.create_query_object, with the order in which the set of
\* recognised options is gone through: the params of the query it returns,
\* the exception it raises instead, and the caller's options object after
\* the call.  named_parameters popped from the copy is the dict the options
\* object holds, and the keywords are written into it.
create_query_object(statement, options, kwargs, order) ==
    LET sp == SplitOptions(options, 1, EmptyDict)
        args == merge_args(sp.opt, kwargs)
        pos == positional_parameters(args, sp.opts)
        args1 == Pop(args, "positional_parameters")
        named == named_parameters(args1)
        args2 == Pop(args1, "named_parameters")
        q0 == N1QLQueryInit(statement, pos, named)
        q1 == Update(q0, "metrics" :> Get(args2, "metrics", FALSE))
        r == apply_options(SetOk(q1), args2, order) IN
    [params |-> r.params, raised |-> r.raised,
     opt |-> IF "named_parameters" \in DOMAIN sp.opt
                /\ "named_parameters" \notin DOMAIN kwargs
             THEN Update(sp.opt, "named_parameters" :> named)
             ELSE sp.opt]

\* No query object yet.
\*   params, pre  the parameters now and before the last call
\*   call, raised the last call and what it raised
\*   cw           consistent_with was assigned successfully
NoQuery ==
    [params |-> EmptyDict, pre |-> EmptyDict,
     call |-> [fn |-> "none"], raised |-> "none", cw |-> FALSE]

----------------------------------------------------------------------------
\* acouchbase.get_event_loop (acouchbase/__init__.py).

\* LoopValidator.REQUIRED_METHODS
REQUIRED_METHODS == {"add_reader", "remove_reader", "add_writer", "remove_writer"}

\* A loop class, as the set of required methods it overrides: all of them,
\* all but one, or none.
LoopClasses ==
    {REQUIRED_METHODS, {}} \cup {REQUIRED_METHODS \ {meth} : meth \in REQUIRED_METHODS}

\* The class of the loop asyncio creates when the thread has none: the
\* selector loop, or the proactor loop, which overrides none of the methods.
PolicyClasses == {REQUIRED_METHODS, {}}

\* The loops that exist, the current loop of the thread (0: none yet) and
\* the last call of get_event_loop: its argument (0: None), its result, and
\* the current loop before and after it.
NoLoops == [loops |-> <<>>, cur |-> 0, napp |-> 0,
            call |-> [made |-> FALSE, pref |-> 0, ret |-> 0, precur |-> 0,
                      postcur |-> 0]]

NewLoop(e, cls) == [e EXCEPT !.loops = Append(@, [cls |-> cls, closed |-> FALSE])]

\* Faulty variant: overriding one of the methods is enough.
_is_valid_loop_any(e, evloop) ==
    IF evloop = 0 THEN FALSE
    ELSE \E meth \in REQUIRED_METHODS : meth \in e.loops[evloop].cls

\* LoopValidator._is_valid_loop: a method the class does not override is
\* the one of AbstractEventLoop.
_is_valid_loop(e, evloop) ==
    IF evloop = 0 THEN FALSE
    ELSE \A meth \in REQUIRED_METHODS : meth \in e.loops[evloop].cls

\* asyncio.get_event_loop(): the current loop; the first call on a thread
\* without one creates a loop of the policy's class and makes it current.
asyncio_get_event_loop(e, policy) ==
    IF e.cur # 0 THEN e
    ELSE [NewLoop(e, policy) EXCEPT !.cur = Len(e.loops) + 1]

\* LoopValidator._get_working_loop
_get_working_loop(e, policy) ==
    LET e1 == asyncio_get_event_loop(e, policy)
        evloop == e1.cur IN
    IF ~_is_valid_loop(e1, evloop)
    THEN LET e2 == NewLoop([e1 EXCEPT !.loops[evloop].closed = TRUE],
                           REQUIRED_METHODS)
             new_loop == Len(e2.loops) IN
         [e |-> [e2 EXCEPT !.cur = new_loop], ret |-> new_loop]
    ELSE [e |-> e1, ret |-> evloop]

\* LoopValidator.get_event_loop
get_event_loop(e, evloop, policy) ==
    IF _is_valid_loop(e, evloop) THEN [e |-> e, ret |-> evloop]
    ELSE _get_working_loop(e, policy)

----------------------------------------------------------------------------
\* SearchIndex (couchbase/management/logic/search_index_logic.py) and its
\* conversions to and from the server's JSON.

\* A dict field of a SearchIndex: a dict, or None.
NoneDict == [none |-> TRUE, d |-> EmptyDict]
Dict(d) == [none |-> FALSE, d |-> d]

\* The dataclass constructor, its arguments in the order of the fields.
SearchIndex(name, source_type, idx_type, source_name, uuid, params, source_uuid, source_params, plan_params) ==
    [name |-> name, source_type |-> source_type, idx_type |-> idx_type,
     source_name |-> source_name, uuid |-> uuid, params |-> params,
     source_uuid |-> source_uuid, source_params |-> source_params,
     plan_params |-> plan_params]

\* The indexes an application builds: the dict fields are dicts, empty by
\* default; the optional strings are None by default.
ParamDicts == {Dict(EmptyDict), Dict("k" :> "v")}
SearchIndexes ==
    {SearchIndex(name, source_type, idx_type, source_name, uuid, params,
                 source_uuid, source_params, plan_params) :
        name \in {"", "idx"},
        source_type \in {"", "couchbase"},
        idx_type \in {"fulltext-index", "fulltext-alias"},
        source_name \in {NoneName, "", "travel"},
        uuid \in {NoneName, "u1"},
        params \in ParamDicts,
        source_uuid \in {NoneName, "su1"},
        source_params \in ParamDicts,
        plan_params \in ParamDicts}

\* SearchIndex.is_valid
SearchIndex_is_valid(x) ==
    ~(is_null_or_empty(x.name) \/ is_null_or_empty(x.idx_type)
      \/ is_null_or_empty(x.source_type))

\* json.loads(j): the value the JSON text j stands for.
json_loads(j) == j.json

\* SearchIndex.as_dict: the dict, or the TypeError of len(None).
as_dict(x) ==
    IF x.params.none \/ x.source_params.none \/ x.plan_params.none
    THEN [raised |-> "TypeError", d |-> EmptyDict]
    ELSE [raised |-> "none",
          d |-> ("name" :> x.name) @@ ("type" :> x.idx_type)
                @@ ("source_type" :> x.source_type)
                @@ Entry(~is_null_or_empty(x.uuid), "uuid", x.uuid)
                @@ Entry(DOMAIN x.params.d # {}, "params_json",
                         json_dumps(x.params.d))
                @@ Entry(~is_null_or_empty(x.source_uuid), "source_uuid",
                         x.source_uuid)
                @@ Entry(~is_null_or_empty(x.source_name), "source_name",
                         x.source_name)
                @@ Entry(DOMAIN x.source_params.d # {}, "source_params_json",
                         json_dumps(x.source_params.d))
                @@ Entry(DOMAIN x.plan_params.d # {}, "plan_params_json",
                         json_dumps(x.plan_params.d))]

\* json.loads(json_data.get(k)) when k is in json_data, else None.
loads_or_none(json_data, k) ==
    IF k \in DOMAIN json_data THEN Dict(json_loads(json_data[k])) ELSE NoneDict

\* SearchIndex.from_server: the constructor is called positionally, 'type'
\* second and 'source_type' third.
from_server(json_data) ==
    SearchIndex(Get(json_data, "name", NoneName),
                Get(json_data, "type", NoneName),
                Get(json_data, "source_type", NoneName),
                Get(json_data, "source_name", NoneName),
                Get(json_data, "uuid", NoneName),
                loads_or_none(json_data, "params_json"),
                Get(json_data, "source_uuid", NoneName),
                loads_or_none(json_data, "source_params_json"),
                loads_or_none(json_data, "plan_params_json"))

\* No index yet.
\*   call     the last call: SearchIndex, as_dict or from_server
\*   x        the index the application built
\*   idx      the index at hand: x, or the one from_server returned
\*   made     idx was returned by from_server
\*   d        the dict as_dict returned
\*   raised   the exception of the last call
NoConversion ==
    [call |-> "none", x |-> SearchIndex("", "", "", "", "", NoneDict, "",
                                        NoneDict, NoneDict),
     idx |-> SearchIndex("", "", "", "", "", NoneDict, "", NoneDict, NoneDict),
     made |-> FALSE, d |-> EmptyDict, raised |-> "none"]

----------------------------------------------------------------------------
\* AsyncWrapper.datastructure_op (acouchbase/logic/wrappers.py): the
\* coroutine around an operation of a datastructure, and the document the
\* datastructure is kept in.

CreateTypes == {"none", "list", "dict"}
Docs == {"missing", "list", "dict"}

\* The outcomes of the wrapped operation on the document.
op_outcomes(doc) ==
    (IF doc = "missing" THEN {"DocumentNotFoundException"} ELSE {"ok"})
        \cup {"UnAmbiguousTimeoutException"}

\* The outcomes of collection.insert(key, value) and the document after it.
insert_outcomes(doc, value) ==
    (IF doc = "missing" THEN {[raised |-> "ok", doc |-> value]}
     ELSE {[raised |-> "DocumentExistsException", doc |-> doc]})
        \cup {[raised |-> "UnAmbiguousTimeoutException", doc |-> doc]}

\* No call yet.
\*   pc           where the coroutine waits: op, insert, retry; idle, done
\*   create_type  the create_type of the decorator
\*   doc          the document under the key
\*   attempts     the times the wrapped operation was called
\*   inserts      the times insert was called
\*   inserted     the value insert was called with
\*   first, ins, second   the outcomes of the operation, the insert, the retry
\*   result       what the call returned or raised
NoDs ==
    [pc |-> "idle", create_type |-> "none", doc |-> "missing",
     attempts |-> 0, inserts |-> 0, inserted |-> "none",
     first |-> "none", ins |-> "none", second |-> "none", result |-> "none",
     ncalls |-> 0, nenv |-> 0]

\* wrapped_fn is called: the first "await fn(self, *args, **kwargs)".
datastructure_call(d, create_type) ==
    [d EXCEPT !.pc = "op", !.create_type = create_type, !.attempts = 1,
              !.inserts = 0, !.inserted = "none", !.first = "none",
              !.ins = "none", !.second = "none", !.result = "none",
              !.ncalls = @ + 1]

\* Faulty variant: a retry that finds no document inserts and retries again.
datastructure_op_loops(d, outcome) ==
    CASE d.pc \in {"op", "retry"} ->
            IF outcome = "DocumentNotFoundException" /\ d.create_type # "none"
            THEN [d EXCEPT !.pc = "insert", !.first = outcome,
                           !.inserts = @ + 1, !.inserted = d.create_type]
            ELSE [d EXCEPT !.pc = "done", !.first = outcome,
                           !.result = outcome]
      [] d.pc = "insert" ->
            IF outcome \in {"ok", "DocumentExistsException"}
            THEN [d EXCEPT !.pc = "retry", !.ins = outcome,
                           !.attempts = @ + 1]
            ELSE [d EXCEPT !.pc = "done", !.ins = outcome, !.result = outcome]
      [] OTHER -> d

\* The coroutine resumes with the outcome of what it awaited.
datastructure_op(d, outcome) ==
    CASE d.pc = "op" ->
            IF outcome = "DocumentNotFoundException"
            THEN IF d.create_type # "none"
                 THEN [d EXCEPT !.pc = "insert", !.first = outcome,
                                !.inserts = @ + 1, !.inserted = d.create_type]
                 ELSE [d EXCEPT !.pc = "done", !.first = outcome,
                                !.result = outcome]
            ELSE [d EXCEPT !.pc = "done", !.first = outcome,
                           !.result = outcome]
      [] d.pc = "insert" ->
            IF outcome \in {"ok", "DocumentExistsException"}
            THEN [d EXCEPT !.pc = "retry", !.ins = outcome,
                           !.attempts = @ + 1]
            ELSE [d EXCEPT !.pc = "done", !.ins = outcome, !.result = outcome]
      [] d.pc = "retry" ->
            [d EXCEPT !.pc = "done", !.second = outcome, !.result = outcome]
      [] OTHER -> d

----------------------------------------------------------------------------
\* Actions.

Init ==
    /\ conn = [n \in Nodes |-> 0]
    /\ connected = FALSE
    /\ connect_ft = [n \in {"cluster", "bucket"} |-> 0]
    /\ op = [o \in FtIds |-> NoOp]
    /\ nft = 0
    /\ ncalls = 0
    /\ ncancels = 0
    /\ nextra = 0
    /\ loopq = <<>>
    /\ qreq = NewQueryRequest
    /\ qenv = NewQueryEnv
    /\ search = NewSearch
    /\ vcall = NoCall
    /\ n1ql = NoQuery
    /\ evl = NoLoops
    /\ sidx = NoConversion
    /\ ds = NoDs

\* An application call, while the bound on calls allows it.
Call(s) ==
    /\ ncalls < MaxCalls
    /\ ncalls' = ncalls + 1
    /\ UNCHANGED <<ncancels, nextra>>
    /\ Apply(s)

\* A step of the loop or of the engine.
Step(s) == UNCHANGED <<ncalls, ncancels, nextra>> /\ Apply(s)

\* The application awaits cluster.on_connect() or bucket.on_connect().
\* It holds the future that on_connect returns.
AppOnConnect ==
    \E n \in {"cluster", "bucket"} :
        LET r == IF n = "cluster" THEN ClusterOnConnect(Cur)
                                  ELSE BucketOnConnect(Cur) IN
        Call([r.s EXCEPT !.op[r.f].held = TRUE])

\* upsert, insert, remove, ... on a collection, with arguments of kind a.
AppKv(A) ==
    \E c \in Collections, a \in A : Call(inject_callbacks(Cur, c, a))

\* get, get_and_touch, get_and_lock, lookup_in on a collection.
AppKvDecode(A) ==
    \E c \in Collections, a \in A : Call(inject_callbacks_and_decode(Cur, c, a))

\* A cluster operation, with or without chain_connection.
AppClusterOp(A) ==
    \E ch \in BOOLEAN, a \in A : Call(inject_cluster_callbacks(Cur, ch, a))

\* A management operation.
AppMgmt(A) ==
    \E a \in A : Call(mgmt_inject_callbacks(Cur, a))

\* The application cancels a connect future it holds.
AppCancelConnect ==
    \E f \in FtIds :
        /\ op[f].held
        /\ op[f].st = "pending"
        /\ ncancels < MaxCancels
        /\ ncancels' = ncancels + 1
        /\ UNCHANGED <<ncalls, nextra>>
        /\ Apply(FutCancel(Cur, f))

\* The application cancels the future of a call whose chained connect is
\* still pending.
AppCancelOp ==
    \E f \in FtIds :
        /\ op[f].st = "pending"
        /\ op[f].chain = "waiting"
        /\ ncancels < MaxCancels
        /\ ncancels' = ncancels + 1
        /\ UNCHANGED <<ncalls, nextra>>
        /\ Apply([FutCancel(Cur, f) EXCEPT !.op[f].by = "app"])

\* The engine completes a native call: success.  Only a document read can
\* come back with bytes the transcoder rejects.
EngineOk ==
    \E f \in FtIds, dec \in BOOLEAN :
        /\ op[f].eng = "inflight"
        /\ (~dec => op[f].kind = "kvdec")
        /\ Step(on_ok([Cur EXCEPT !.op[f].eng = "called", !.op[f].ncb = 1,
                                  !.op[f].out = "ok"], f, dec))

\* The engine completes a native call: failure.
EngineErr ==
    \E f \in FtIds :
        /\ op[f].eng = "inflight"
        /\ Step(on_err([Cur EXCEPT !.op[f].eng = "called", !.op[f].ncb = 1,
                                   !.op[f].out = "err"], f))

\* A misbehaving engine invokes a callback of a completed call once more.
EngineAgain ==
    \E f \in FtIds, ok \in BOOLEAN :
        /\ op[f].eng = "called"
        /\ nextra < MaxExtra
        /\ nextra' = nextra + 1
        /\ UNCHANGED <<ncalls, ncancels>>
        /\ LET s == [Cur EXCEPT !.op[f].ncb = @ + 1] IN
           Apply(IF ok THEN on_ok(s, f, TRUE) ELSE on_err(s, f))

\* The event loop runs the next ready handle.
LoopRun ==
    /\ loopq # <<>>
    /\ Step(RunHandle([Cur EXCEPT !.loopq = Tail(@)], Head(loopq)))

\* The program with valid arguments and an engine that invokes exactly one
\* callback per native call.
Next ==
    \/ AppOnConnect
    \/ AppKv({"ok"})
    \/ AppKvDecode({"ok"})
    \/ AppClusterOp({"ok"})
    \/ AppMgmt({"ok"})
    \/ EngineOk
    \/ EngineErr
    \/ LoopRun

Spec == Init /\ [][Next]_vars

\* The same, and the application may cancel connect futures.
NextCancel == Next \/ AppCancelConnect

SpecCancel == Init /\ [][NextCancel]_vars

\* Spec, and the application may cancel the future of a waiting call.
NextCancelOp == Next \/ AppCancelOp

SpecCancelOp == Init /\ [][NextCancelOp]_vars

\* The same as Spec with an engine that may invoke callbacks more than once.
NextDouble == Next \/ EngineAgain

SpecDouble == Init /\ [][NextDouble]_vars

\* The consumer retrieves the next item; it waits while the channel is
\* empty and retrieves nothing more once the stream is done.
AppNext ==
    /\ ~qreq.done_streaming
    /\ qreq.started_streaming => qreq.raw_rows # <<>>
    /\ ApplyQ(QueryNext(CurQ))

\* The application triggers submission explicitly (_submit_query): before
\* the first submission or after the stream is done, and when again is
\* TRUE also in between.
AppSubmit(again) ==
    /\ qenv.ntrig < MaxTriggers
    /\ again \/ ~qreq.started_streaming \/ qreq.done_streaming
    /\ ApplyQ(_submit_query([CurQ EXCEPT !.env.ntrig = @ + 1,
                                        !.env.late = @ \/ qreq.done_streaming]))

\* The application calls metadata().
AppMetadata ==
    ApplyQ([CurQ EXCEPT !.env.mdret = metadata(CurQ),
                        !.env.mdearly = @ \/ ~qreq.done_streaming])

\* The engine delivers the next row of the current native query.
EngineRow ==
    /\ qreq.streaming_result # 0
    /\ ~qenv.term.sent
    /\ qenv.sent < MaxRows
    /\ ~QueueFull(qreq.raw_rows, RawRowsMaxsize)
    /\ ApplyQ([CurQ EXCEPT !.req.raw_rows = Append(@, Item("row", qenv.sent + 1,
                                                          NoResponse)),
                           !.env.sent = @ + 1])

\* The engine ends the stream of the current native query, with success or
\* with an error.
EngineEnd ==
    \E r \in Responses :
        /\ qreq.streaming_result # 0
        /\ ~qenv.term.sent
        /\ ~QueueFull(qreq.raw_rows, RawRowsMaxsize)
        /\ ApplyQ([CurQ EXCEPT !.req.raw_rows = Append(@, Item("response", 0, r)),
                               !.env.term = r])

\* One streaming query request whose submission is triggered before it has
\* started or after it is done.
NextQuery ==
    \/ AppNext
    \/ AppSubmit(FALSE)
    \/ AppMetadata
    \/ EngineRow
    \/ EngineEnd

SpecQuery == Init /\ [][NextQuery]_vars

\* The same, and submission may be triggered again at any time.
NextResubmit ==
    \/ AppNext
    \/ AppSubmit(TRUE)
    \/ AppMetadata
    \/ EngineRow
    \/ EngineEnd

SpecResubmit == Init /\ [][NextResubmit]_vars

\* The application awaits cluster.on_connect() before it takes the search
\* index manager from the cluster.
AppClusterConnect ==
    LET r == ClusterOnConnect(Cur) IN
    /\ conn["cluster"] = 0
    /\ Call([r.s EXCEPT !.op[r.f].held = TRUE])

\* A call on the search index manager, which the application has taken
\* from the connected cluster.
AppSearch ==
    \E o \in SearchOps, i \in IndexNames :
        /\ conn["cluster"] # 0
        /\ search.ncalls < MaxSearchCalls
        /\ Step(SearchManagerCall(Cur, o, i))

\* The engine completes a native call while the search service is in use.
\* A connect succeeds or fails.  get_index and drop_index of an index the
\* service does not hold fail with a message that says so; any other
\* manager operation succeeds (upsert_index creates the index, drop_index
\* removes it) or fails with some message.
EngineSearch ==
    \E f \in FtIds, ok \in BOOLEAN, msg \in Messages :
        LET r == search.req[f]
            missing == /\ r.op_type \in {"drop_index", "get_index"}
                       /\ r.index \notin search.indexes
            s == [Cur EXCEPT !.op[f].eng = "called", !.op[f].ncb = 1,
                             !.op[f].out = IF ok THEN "ok" ELSE "err",
                             !.search.req[f].missing = missing]
        IN
        /\ op[f].eng = "inflight"
        /\ op[f].kind \in {"connect", "open", "mgmt"}
        /\ missing => ~ok /\ re_match("index not found", msg)
        /\ IF op[f].kind # "mgmt"
           THEN /\ msg = <<"internal error">>
                /\ Step(IF ok THEN on_ok(s, f, TRUE) ELSE on_err(s, f))
           ELSE IF ok
                THEN Step(on_ok(
                        [s EXCEPT !.search.indexes =
                            CASE r.op_type = "upsert_index" -> @ \cup {r.index}
                              [] r.op_type = "drop_index" -> @ \ {r.index}
                              [] OTHER -> @], f, TRUE))
                ELSE Step(mgmt_on_err(s, f, msg))

\* The search index manager of a cluster that the application connects.
NextSearch ==
    \/ AppClusterConnect
    \/ AppSearch
    \/ EngineSearch
    \/ LoopRun

SpecSearch == Init /\ [][NextSearch]_vars

\* The program with arguments the wrapped functions reject as well as
\* arguments they accept.
NextArgs ==
    \/ AppKv(ArgKinds)
    \/ AppMgmt(ArgKinds)
    \/ EngineOk
    \/ EngineErr
    \/ LoopRun

SpecArgs == Init /\ [][NextArgs]_vars

\* The application calls a function of the blocking API.
AppBlockingCall ==
    \E c \in BlockingCalls :
        /\ vcall' = [c |-> c, r |-> RunCall(c)]
        /\ UNCHANGED <<wvars, qreq, qenv, n1ql, evl, sidx, ds>>

NextValidate == AppBlockingCall

SpecValidate == Init /\ [][NextValidate]_vars

\* The application creates the query from a statement, options and
\* keywords.  When a setter raises, no query is returned.  The call record
\* holds the caller's options object as the call leaves it.
AppCreateQuery(Args, Kws) ==
    \E options \in Args, kwargs \in Kws :
        \E order \in ListsOf(recognised_options(options, kwargs)) :
            /\ n1ql.call.fn = "none"
            /\ LET r == create_query_object("SELECT", options, kwargs, order) IN
               n1ql' = [params |-> IF r.raised = "none" THEN r.params
                                   ELSE EmptyDict,
                        pre |-> EmptyDict,
                        call |-> [fn |-> "create_query_object",
                                  options |-> options, kwargs |-> kwargs,
                                  opt |-> r.opt],
                        raised |-> r.raised,
                        cw |-> r.raised = "none"
                               /\ "mutation_state" \in DOMAIN r.params]
            /\ UNCHANGED <<wvars, qreq, qenv, vcall, evl, sidx, ds>>

\* The application assigns query.consistency.
AppSetConsistency ==
    \E value \in ConsistencyValues :
        /\ "statement" \in DOMAIN n1ql.params
        /\ LET r == consistency_setter(n1ql.params, value) IN
           n1ql' = [n1ql EXCEPT !.params = r.params, !.pre = n1ql.params,
                                !.call = [fn |-> "consistency", value |-> value],
                                !.raised = r.raised]
        /\ UNCHANGED <<wvars, qreq, qenv, vcall, evl, sidx, ds>>

\* The application assigns query.consistent_with.
AppSetConsistentWith ==
    \E value \in MutationStates :
        \E tokens \in ListsOf(value._sv) :
            /\ "statement" \in DOMAIN n1ql.params
            /\ LET r == consistent_with_setter(n1ql.params, value, tokens) IN
               n1ql' = [n1ql EXCEPT !.params = r.params, !.pre = n1ql.params,
                                    !.call = [fn |-> "consistent_with",
                                              value |-> value],
                                    !.raised = r.raised,
                                    !.cw = @ \/ r.raised = "none"]
            /\ UNCHANGED <<wvars, qreq, qenv, vcall, evl, sidx, ds>>

NextN1QL ==
    \/ AppCreateQuery(OptionArgs, Keywords)
    \/ AppSetConsistency
    \/ AppSetConsistentWith

SpecN1QL == Init /\ [][NextN1QL]_vars

\* A query created with consistency options, and the assignments after it.
NextCreate ==
    \/ AppCreateQuery(ConsistencyOptionArgs, Keywords)
    \/ AppSetConsistency
    \/ AppSetConsistentWith

SpecCreate == Init /\ [][NextCreate]_vars

\* The application creates an event loop of some class and may make it the
\* current loop of the thread (asyncio.set_event_loop).
AppNewLoop ==
    \E cls \in LoopClasses, set \in BOOLEAN :
        /\ evl.napp < MaxLoops
        /\ evl' = [NewLoop(evl, cls) EXCEPT
                      !.napp = @ + 1,
                      !.cur = IF set THEN Len(evl.loops) + 1 ELSE @]
        /\ UNCHANGED <<wvars, qreq, qenv, vcall, n1ql, sidx, ds>>

\* acouchbase.get_event_loop(evloop), with None or a loop that is not
\* closed as the preferred loop.
AppGetEventLoop ==
    \E pref \in 0..Len(evl.loops), policy \in PolicyClasses :
        /\ pref # 0 => ~evl.loops[pref].closed
        /\ LET r == get_event_loop(evl, pref, policy) IN
           evl' = [r.e EXCEPT !.call = [made |-> TRUE, pref |-> pref,
                                        ret |-> r.ret, precur |-> evl.cur,
                                        postcur |-> r.e.cur]]
        /\ UNCHANGED <<wvars, qreq, qenv, vcall, n1ql, sidx, ds>>

NextLoops ==
    \/ AppNewLoop
    \/ AppGetEventLoop

SpecLoops == Init /\ [][NextLoops]_vars

\* The application builds a SearchIndex.
AppSearchIndex ==
    \E x \in SearchIndexes :
        /\ sidx.call = "none"
        /\ sidx' = [sidx EXCEPT !.call = "SearchIndex", !.x = x, !.idx = x]
        /\ UNCHANGED <<wvars, qreq, qenv, vcall, n1ql, evl, ds>>

\* as_dict on the index at hand.
AppAsDict ==
    /\ sidx.call \in {"SearchIndex", "from_server"}
    /\ LET r == as_dict(sidx.idx) IN
       sidx' = [sidx EXCEPT !.call = "as_dict", !.d = r.d, !.raised = r.raised]
    /\ UNCHANGED <<wvars, qreq, qenv, vcall, n1ql, evl, ds>>

\* from_server on the dict as_dict returned for the application's index.
AppFromServer ==
    /\ sidx.call = "as_dict"
    /\ sidx.raised = "none"
    /\ ~sidx.made
    /\ sidx' = [sidx EXCEPT !.call = "from_server", !.idx = from_server(sidx.d),
                            !.made = TRUE]
    /\ UNCHANGED <<wvars, qreq, qenv, vcall, n1ql, evl, ds>>

NextIndex ==
    \/ AppSearchIndex
    \/ AppAsDict
    \/ AppFromServer

SpecIndex == Init /\ [][NextIndex]_vars

\* The application calls an operation wrapped by datastructure_op.
AppDatastructureCall ==
    \E create_type \in CreateTypes :
        /\ ds.pc \in {"idle", "done"}
        /\ ds.ncalls < MaxDsCalls
        /\ ds' = datastructure_call(ds, create_type)
        /\ UNCHANGED <<wvars, qreq, qenv, vcall, n1ql, evl, sidx>>

\* The wrapped operation completes and the coroutine resumes.
EngineDsOp ==
    \E outcome \in op_outcomes(ds.doc) :
        /\ ds.pc \in {"op", "retry"}
        /\ ds' = datastructure_op(ds, outcome)
        /\ UNCHANGED <<wvars, qreq, qenv, vcall, n1ql, evl, sidx>>

\* The insert completes and the coroutine resumes.
EngineDsInsert ==
    \E r \in insert_outcomes(ds.doc, ds.inserted) :
        /\ ds.pc = "insert"
        /\ ds' = datastructure_op([ds EXCEPT !.doc = r.doc], r.raised)
        /\ UNCHANGED <<wvars, qreq, qenv, vcall, n1ql, evl, sidx>>

\* Another client removes or creates the document.
EnvDocument ==
    \E doc \in Docs :
        /\ ds.nenv < MaxEnv
        /\ doc # ds.doc
        /\ ds' = [ds EXCEPT !.doc = doc, !.nenv = @ + 1]
        /\ UNCHANGED <<wvars, qreq, qenv, vcall, n1ql, evl, sidx>>

NextDs ==
    \/ AppDatastructureCall
    \/ EngineDsOp
    \/ EngineDsInsert
    \/ EnvDocument

SpecDs == Init /\ [][NextDs]_vars

----------------------------------------------------------------------------
\* Properties.

Created == {f \in FtIds : op[f].kind # "none"}

\* The wrapped operations (not the connect steps themselves).
Operations == {f \in Created : op[f].kind \in {"kv", "kvdec", "cchain", "cop", "mgmt"}}

\* The calls whose done-callback has run on the connect future they waited for.
Chained == {f \in Created : op[f].chain = "ran"}

\* The ready queue holds a resolution of future f.
Scheduled(f) ==
    \E i \in 1..Len(loopq) :
        loopq[i].f = f /\ loopq[i].t \in {"set_result", "set_exception"}

\* C1: when the engine invokes callbacks of one operation more than once,
\* every invocation after the first is a no-op that raises no error: the
\* outcome is the first invocation's and no InvalidStateError is raised.
C1_LaterInvocationIsNoOp ==
    \A f \in Operations :
        op[f].ncb > 1 =>
            /\ ~op[f].ise
            /\ (op[f].st = "result" => op[f].out = "ok")
            /\ (op[f].st = "exception" => op[f].out = "err")

\* C2: operations issued while the connect they need is still pending all
\* wait on the one connect future of that node, every connect future has at
\* most one native connect behind it and at most one is pending per node;
\* a waiting operation is never stuck (the loop or the engine still has a
\* step to take for it), and once its done-callback has run the operation
\* is consistent with the connect's outcome: failed with the connect's
\* exception and never invoked, or invoked exactly once.
C2_ConnectOnce ==
    /\ \A f, g \in Created :
          ( /\ op[f].chain = "waiting" /\ op[g].chain = "waiting"
            /\ op[op[f].cft].kind = op[op[g].cft].kind )
          => op[f].cft = op[g].cft
    /\ \A k \in {"connect", "open"} :
          Cardinality({f \in Created : op[f].kind = k /\ op[f].st = "pending"}) <= 1
    /\ \A f \in Created : op[f].kind \in {"connect", "open"} => op[f].native <= 1
    /\ \A f \in Created :
          op[f].chain \in {"waiting", "queued"} =>
              loopq # <<>> \/ \E g \in Created : op[g].eng = "inflight"
    /\ \A f \in Chained :
          /\ op[op[f].cft].st = "exception" =>
                op[f].st = "exception" /\ op[f].val = op[op[f].cft].val
                /\ op[f].native = 0
          /\ op[op[f].cft].st = "result" => op[f].native = 1

\* Two operations wait for the same pending connect, whose native call has
\* been made once.
C2_Witness ==
    \E f, g \in Operations :
        /\ f # g
        /\ op[f].chain = "waiting" /\ op[g].chain = "waiting"
        /\ op[f].cft = op[g].cft
        /\ \E c \in Created : op[c].kind = "connect" /\ op[c].native = 1

\* C3: when the connect future an operation was chained on has failed with
\* exception E, the operation's future is failed with E and the operation's
\* native call is never invoked.
C3_ConnectFailurePropagates ==
    \A f \in Chained :
        op[op[f].cft].st = "exception" =>
            /\ op[f].st = "exception"
            /\ op[f].val = op[op[f].cft].val
            /\ op[f].native = 0
            /\ op[f].eng = "none"

\* An operation's done-callback has run on a connect future that failed with
\* the engine's error.
C3_Witness ==
    \E f \in Operations \cap Chained :
        /\ op[op[f].cft].st = "exception"
        /\ op[op[f].cft].val.k = "EngineError"

\* C4: when the connect future an operation was chained on is cancelled, the
\* operation's future is cancelled, not left pending, and the operation's
\* native call is never invoked.
C4_CancelPropagates ==
    \A f \in Chained :
        op[op[f].cft].st = "cancelled" =>
            /\ op[f].st = "cancelled"
            /\ op[f].native = 0
            /\ op[f].eng = "none"

\* An operation's done-callback has run on a cancelled connect future.
C4_Witness ==
    \E f \in Operations \cap Chained : op[op[f].cft].st = "cancelled"

\* C5: a collection operation issued on a collection whose connection is
\* unset returns a future without raising, whichever decorator wraps it.
C5_NoRaiseOnUnconnected ==
    \A f \in Created : op[f].kind \in {"kv", "kvdec"} => ~op[f].raised

\* A document read was issued on a collection without a connection.
C5_Witness ==
    \E f \in Created : op[f].kind = "kvdec" /\ op[f].raised

\* C6: a cluster operation without chain_connection, or a management
\* operation, issued while the connection is unset returns a future that is
\* already failed with MissingConnectionException, and its native call is
\* never invoked.
C6_MissingConnection ==
    /\ [][\A f \in FtIds :
            ( /\ op[f].kind = "none"
              /\ op'[f].kind \in {"cop", "mgmt"}
              /\ conn["cluster"] = 0 )
            => /\ op'[f].st = "exception"
               /\ op'[f].val.k = "MissingConnection"
               /\ op'[f].native = 0]_vars
    /\ [](\A f \in Created :
            op[f].val.k = "MissingConnection" =>
                op[f].native = 0 /\ op[f].eng = "none")

\* Both kinds of operation have been refused for want of a connection.
C6_Witness ==
    \E f, g \in Created :
        /\ op[f].kind = "cop" /\ op[f].val.k = "MissingConnection"
        /\ op[g].kind = "mgmt" /\ op[g].val.k = "MissingConnection"

\* C7: a future is resolved with the outcome of an engine callback only by
\* the loop running the handle that the callback scheduled with
\* call_soon_threadsafe, never by the engine's thread.
C7_ResolvedOnLoop ==
    [][\A f \in FtIds :
         ( /\ op[f].st = "pending"
           /\ op'[f].st \in {"result", "exception"}
           /\ op'[f].eng = "called"
           /\ op'[f].val.o = f )
         => /\ loopq # <<>>
            /\ Head(loopq).f = f
            /\ Head(loopq).t \in {"set_result", "set_exception"}
            /\ op'[f].by = "loop"]_vars

\* An operation's future carries the engine's result and another the
\* engine's error.
C7_Witness ==
    \E f, g \in Operations :
        /\ op[f].st = "result" /\ op[f].val.k = "result"
        /\ op[g].st = "exception" /\ op[g].val.k = "EngineError"

\* C8: once the engine has invoked a callback of an operation and the loop
\* has run what the callback scheduled, the operation's future is resolved,
\* also when decoding the raw result inside on_ok fails.
C8_CallbackResolves ==
    \A f \in Operations :
        (op[f].eng = "called" /\ ~Scheduled(f)) => op[f].st # "pending"

\* The engine has delivered a document the transcoder cannot decode.
C8_Witness ==
    \E f \in Operations : op[f].escaped

\* The connect call whose handle node n caches has the given outcome.
HandleOf(n) == op[conn[n]]

C11_SiblingOperationRuns ==
    [][\A f \in FtIds :
         ( /\ op[f].kind = "none"
           /\ op'[f].kind \in {"kv", "kvdec"}
           /\ \E c \in Collections : conn[c] # 0 )
         => /\ ~op'[f].raised
            /\ \A g \in FtIds :
                  op'[g].kind \in {"connect", "open"} => op[g].kind = op'[g].kind]_vars

\* The connect attempts of the cluster (k = "connect") or of the bucket
\* (k = "open") that have been started and whose native call has not
\* completed.
InFlight(k) ==
    {f \in Created :
        /\ op[f].kind = k
        /\ op[f].chain \in {"waiting", "queued"} \/ op[f].eng = "inflight"}

\* A cached connection changes only in the completion of a connect step of
\* its node: on_ok of the native connect for the cluster, the done-callback
\* of the cluster's connect for the bucket, the done-callback of the
\* bucket's connect for the scope and the collection the operation is on.
WrittenAtCompletion ==
    \A n \in Nodes :
        conn'[n] # conn[n] =>
            IF n = "cluster"
            THEN \E f \in FtIds :
                    /\ op[f].kind = "connect" /\ op[f].eng = "inflight"
                    /\ op'[f].eng = "called" /\ op'[f].out = "ok"
                    /\ conn'[n] = f
            ELSE /\ loopq # <<>>
                 /\ Head(loopq).t = "chain"
                 /\ op[Head(loopq).c].st = "result"
                 /\ IF n = "bucket"
                    THEN /\ op[Head(loopq).f].kind = "open"
                         /\ conn'[n] = conn["cluster"]
                    ELSE /\ op[Head(loopq).f].kind = "kv"
                         /\ n = "scope" \/ op[Head(loopq).f].node = n
                         /\ conn'[n] = conn["bucket"]

C13_SubmittedOnce ==
    /\ qreq.started_streaming <=> qenv.nsubmit > 0
    /\ qenv.nsubmit <= 1

\* C14: metadata() called before the stream is done raises a "not ready"
\* error; it does not return None.
C14_MetadataNotReady ==
    qenv.mdearly => qenv.mdret = "NotReady"

\* The numbers 1..n in order.
Upto(n) == [i \in 1..n |-> i]

C16_ChannelBounded ==
    Len(qreq.raw_rows) < MaxRows

\* C17: once the stream is done, triggering submission again makes no
\* native call and changes nothing of the request, and no row is produced
\* or received any more.
C17_DoneIsFinal ==
    [][qreq.done_streaming =>
          /\ qreq' = qreq
          /\ qenv'.nsubmit = qenv.nsubmit
          /\ qenv'.sent = qenv.sent
          /\ qenv'.got = qenv.got]_vars

\* Submission has been triggered on a request that was done.
C17_Witness ==
    qreq.done_streaming /\ qenv.late /\ qenv.nsubmit = 1

\* C18: for a response flagged has_exception, in each of its three forms,
\* _set_metadata raises an exception derived from CouchbaseException and
\* leaves the metadata unset; no other exception type leaves it.
C18_TypedOrNothing ==
    /\ qenv.mdexc \in {"none"} \cup CouchbaseClasses
    /\ (qreq.done_streaming /\ qenv.term.has_exception) =>
          qenv.mdexc # "none" /\ qreq.metadata = "None"

\* C19: an engine error without context is mapped by its code alone: a code
\* of the error-code table to the table's class, any other code to
\* CouchbaseException.
C19_BareCodeMapping ==
    (qreq.done_streaming /\ qenv.term.exc = "noctx") =>
        qenv.mdexc = IF qenv.term.code \in DOMAIN PYCBC_ERROR_MAP
                     THEN PYCBC_ERROR_MAP[qenv.term.code]
                     ELSE "CouchbaseException"

\* The stream ended with a context-less error of code 9999.
C19_Witness ==
    /\ qreq.done_streaming
    /\ qenv.term.exc = "noctx"
    /\ qenv.term.code = 9999
    /\ qenv.mdexc = "CouchbaseException"

----------------------------------------------------------------------------
\* The calls whose wrapped function raised inside call_async_fn.
RaisedInCall ==
    {f \in Created : op[f].args # "ok" /\ op[f].st = "exception"
                      /\ op[f].val.o = f /\ op[f].val.m # ""}

\* C21: when the wrapped function raises, call_async_fn fails the future
\* with that very exception if it is a CouchbaseException, a TypeError or a
\* ValueError, and otherwise with an internal-SDK exception that carries the
\* message of the original; nothing propagates out of call_async_fn, and a
\* call whose function raised is never left pending once it was run.
C21_RaiseFailsFuture ==
    \A f \in Created :
        op[f].args # "ok" =>
            /\ ~op[f].ise
            /\ ~op[f].raised
            /\ op[f].native = 0
            /\ (op[f].st = "exception" /\ op[f].val.m # "") =>
                  /\ op[f].val.m = str(op[f].args)
                  /\ op[f].by = "loop"
                  /\ op[f].val.k =
                        IF op[f].args \in {"InvalidArgumentException",
                                           "TypeError", "ValueError"}
                        THEN op[f].args
                        ELSE "InternalSDKException"
            /\ (op[f].st = "pending" =>
                  \/ op[f].chain \in {"waiting", "queued"}
                  \/ \E i \in 1..Len(loopq) : loopq[i].f = f)

\* C21 witness: an operation on a connected collection failed with the
\* internal-SDK exception that carries the message of an IndexError, and
\* another one failed with the ValueError its function raised.
C21_Witness ==
    \E f, g \in RaisedInCall :
        /\ op[f].args = "IndexError"
        /\ op[f].val.k = "InternalSDKException"
        /\ op[g].args = "ValueError"
        /\ op[g].val.k = "ValueError"

\* C22: a call whose arguments are rejected raises at the call site: no
\* future carries the failure and no connect was started on its behalf.
C22_RaisedAtCallSite ==
    \A f \in Created :
        op[f].args = "InvalidArgumentException" =>
            /\ op[f].raised
            /\ op[f].cft = 0
            /\ op[f].st # "exception"

----------------------------------------------------------------------------
\* The blocking API.

\* More than one of insert_doc, upsert_doc and replace_doc was given.
ConflictingSemantics(c) ==
    \/ c.insert_doc /\ c.upsert_doc
    \/ c.insert_doc /\ c.replace_doc
    \/ c.upsert_doc /\ c.replace_doc

\* C23: a call that raises has not invoked its native call, and each of
\* these calls raises InvalidArgumentException: an index operation with a
\* null or empty name, an upsert of a null index or of one without a name,
\* a type or a source type, a get with more than 16 projections, a replace
\* with expiry and preserve_expiry, a mutate_in with conflicting store
\* semantics, a counter operation given a plain non-zero integer.
C23_RejectedNeverSent ==
    LET c == vcall.c
        rejected == vcall.r.raised = "InvalidArgumentException" IN
    /\ vcall.r.raised # "none" => ~vcall.r.sent
    /\ c.fn \in {"drop_index", "get_index"} =>
          (c.index_name \in {NoneName, ""} => rejected)
    /\ c.fn = "upsert_index" =>
          ((c.index.none \/ "" \in {c.index.name, c.index.idx_type,
                                     c.index.source_type}) => rejected)
    /\ c.fn = "get" => (c.project > 16 => rejected)
    /\ c.fn = "replace" => ((c.expiry # 0 /\ c.preserve_expiry) => rejected)
    /\ c.fn = "mutate_in" => (ConflictingSemantics(c) => rejected)
    /\ c.fn \in {"increment", "decrement"} =>
          (((c.delta.t = "int" /\ c.delta.n # 0)
            \/ (c.initial.t = "int" /\ c.initial.n # 0)) => rejected)

\* C23 witness: a mutate_in given both insert_doc and replace_doc raised
\* InvalidArgumentException without making the sub-document call.
C23_Witness ==
    /\ vcall.c.fn = "mutate_in"
    /\ vcall.c.insert_doc /\ vcall.c.replace_doc /\ ~vcall.c.upsert_doc
    /\ vcall.c.spec_ops = {"DICT_UPSERT"} /\ ~vcall.c.preserve_expiry
    /\ vcall.r.raised = "InvalidArgumentException"
    /\ ~vcall.r.sent

\* C29: increment and decrement raise InvalidArgumentException, and send no
\* counter operation, whenever a supplied initial is not a SignedInt64 or a
\* supplied delta is not a DeltaValue, plain integers of any value included.
C29_InvalidCounterRejected ==
    LET c == vcall.c IN
    c.fn \in {"increment", "decrement"} =>
        (((c.delta.t # "None" /\ c.delta.t # "DeltaValue")
          \/ (c.initial.t # "None" /\ c.initial.t # "SignedInt64")) =>
            /\ vcall.r.raised = "InvalidArgumentException"
            /\ ~vcall.r.sent)

\* C30: a get with a list of more than 16 projections raises
\* InvalidArgumentException and reads nothing; with 16 or fewer, or with no
\* list, it raises nothing and the list reaches the engine as given.
C30_ProjectionLimit ==
    LET c == vcall.c IN
    c.fn = "get" =>
        IF c.project > 16
        THEN vcall.r.raised = "InvalidArgumentException" /\ ~vcall.r.sent
        ELSE /\ vcall.r.raised = "none"
             /\ vcall.r.sent
             /\ vcall.r.args.project = c.project

\* C30 witness: a get with 17 projections was rejected.
C30_Witness ==
    /\ vcall.c.fn = "get"
    /\ vcall.c.project = 17
    /\ vcall.r.raised = "InvalidArgumentException"

----------------------------------------------------------------------------
\* N1QLQuery.

IsValue(it) == ~it.opt

\* The positional parameters given explicitly after the statement.
Explicit(options) == SelectSeq(options, IsValue)

\* The options object among the arguments, empty if there is none.
OptionsObject(options) ==
    IF \E i \in 1..Len(options) : options[i].opt
    THEN options[CHOOSE i \in 1..Len(options) : options[i].opt].d
    ELSE EmptyDict

\* C24: the positional parameters of a created query are the explicit ones,
\* in order and JSON-encoded, whenever one was given, whatever list the
\* options object holds; they are the list of the options object only when
\* none was given.
C24_ExplicitPositionalReplace ==
    n1ql.call.fn = "create_query_object" =>
        LET explicit == Explicit(n1ql.call.options)
            given == Get(OptionsObject(n1ql.call.options),
                         "positional_parameters", <<>>)
            pp == Get(n1ql.params, "positional_parameters", <<>>) IN
        IF Len(explicit) > 0
        THEN pp = [i \in 1..Len(explicit) |-> json_dumps(explicit[i].v)]
        ELSE pp = [i \in 1..Len(given) |-> json_dumps(given[i])]

\* C24 witness: a query created with an options object that lists 'abcdefg'
\* and with the explicit parameter 'airline' has 'airline' as its only
\* positional parameter.
C24_Witness ==
    /\ n1ql.call.fn = "create_query_object"
    /\ Len(n1ql.call.options) = 2
    /\ n1ql.call.options[1].opt
    /\ "positional_parameters" \in DOMAIN n1ql.call.options[1].d
    /\ n1ql.call.options[2] = ValItem("airline")
    /\ n1ql.params["positional_parameters"] = <<json_dumps("airline")>>

\* C25: in a created query a keyword wins over the field of the same name of
\* the options object, every keyword that is not a recognised option is a
\* named parameter with the keyword's value, and the named parameters of
\* the options object that no keyword names are kept.
C25_KeywordsWin ==
    n1ql.call.fn = "create_query_object" =>
        LET kw == n1ql.call.kwargs
            o == OptionsObject(n1ql.call.options)
            given == Get(o, "named_parameters", EmptyDict)
            np == Get(n1ql.params, "named_parameters", EmptyDict) IN
        /\ "read_only" \in DOMAIN kw =>
              n1ql.params["readonly"] = kw["read_only"]
        /\ ("read_only" \notin DOMAIN kw /\ "read_only" \in DOMAIN o) =>
              n1ql.params["readonly"] = o["read_only"]
        /\ \A k \in DOMAIN kw \ _VALID_OPTS :
              Dollar(k) \in DOMAIN np /\ np[Dollar(k)] = json_dumps(kw[k])
        /\ \A k \in DOMAIN given \ DOMAIN kw :
              Dollar(k) \in DOMAIN np /\ np[Dollar(k)] = json_dumps(given[k])

\* C25 witness: the options object names atype 'abcdefg' and read_only
\* False, the keywords say atype 'airline' and read_only True, and the query
\* has $atype 'airline' and is read-only.
C25_Witness ==
    /\ n1ql.call.fn = "create_query_object"
    /\ LET o == OptionsObject(n1ql.call.options) IN
       /\ "named_parameters" \in DOMAIN o
       /\ "read_only" \in DOMAIN o
    /\ DOMAIN n1ql.call.kwargs = {"atype", "read_only"}
    /\ n1ql.params["named_parameters"]["$atype"] = json_dumps("airline")
    /\ n1ql.params["named_parameters"]["$btype"] = json_dumps("hotel")
    /\ n1ql.params["readonly"] = TRUE

\* AT_PLUS, as the enum member or as its string.
IsAtPlus(value) == value.t \in {"enum", "str"} /\ value.v = "at_plus"

\* C26: assigning AT_PLUS to consistency raises InvalidArgumentException
\* exactly when consistent_with has not been assigned on the query, raises
\* nothing once it has, and leaves the parameters as they were either way.
C26_AtPlusNeedsMutationState ==
    (n1ql.call.fn = "consistency" /\ IsAtPlus(n1ql.call.value)) =>
        /\ n1ql.raised = (IF n1ql.cw THEN "none" ELSE "InvalidArgumentException")
        /\ n1ql.params = n1ql.pre

\* C26 witness: on a query with a mutation state the string 'at_plus' was
\* assigned without error.
C26_Witness ==
    /\ n1ql.call.fn = "consistency"
    /\ n1ql.call.value = [t |-> "str", v |-> "at_plus"]
    /\ n1ql.cw
    /\ n1ql.raised = "none"

\* C27: after consistent_with was assigned without error, the value was a
\* non-empty MutationState, the parameters hold no scan_consistency entry,
\* mutation_state lists each token of the state once and nothing else, and
\* consistency reads AT_PLUS.
C27_ConsistentWithSetsAtPlus ==
    (n1ql.call.fn = "consistent_with" /\ n1ql.raised = "none") =>
        LET sv == n1ql.call.value._sv IN
        /\ n1ql.call.value.ms /\ sv # {}
        /\ "scan_consistency" \notin DOMAIN n1ql.params
        /\ "mutation_state" \in DOMAIN n1ql.params
        /\ Len(n1ql.params["mutation_state"]) = Cardinality(sv)
        /\ {n1ql.params["mutation_state"][i] :
                i \in 1..Len(n1ql.params["mutation_state"])} = sv
        /\ consistency(n1ql.params) = "at_plus"

\* C27 witness: consistent_with was assigned a state of two tokens on a
\* query whose scan_consistency had been set to not_bounded.
C27_Witness ==
    /\ n1ql.call.fn = "consistent_with"
    /\ n1ql.raised = "none"
    /\ Cardinality(n1ql.call.value._sv) = 2
    /\ "scan_consistency" \in DOMAIN n1ql.pre
    /\ "scan_consistency" \notin DOMAIN n1ql.params

----------------------------------------------------------------------------
\* Event loops.

\* The class of loop l overrides every required method.
Compatible(l) == l # 0 /\ evl.loops[l].cls = REQUIRED_METHODS

\* C28: get_event_loop returns the preferred loop itself when its class
\* overrides all four methods and then closes no loop and leaves the
\* current loop alone; otherwise it returns another loop; the loop it
\* returns always overrides all four, and no loop that does is ever closed.
C28_CompatibleLoopReturned ==
    /\ evl.call.made =>
          /\ Compatible(evl.call.ret)
          /\ ~evl.loops[evl.call.ret].closed
          /\ IF Compatible(evl.call.pref)
             THEN evl.call.ret = evl.call.pref /\ evl.call.postcur = evl.call.precur
             ELSE evl.call.ret # evl.call.pref
    /\ \A l \in 1..Len(evl.loops) : evl.loops[l].closed => ~Compatible(l)

\* C28 witness: the preferred loop lacks one method, the current loop
\* lacked one too and was closed, and a new loop was returned.
C28_Witness ==
    /\ evl.call.made
    /\ evl.call.pref # 0
    /\ Cardinality(evl.loops[evl.call.pref].cls) = 3
    /\ evl.call.precur # 0
    /\ evl.loops[evl.call.precur].closed
    /\ evl.call.ret = Len(evl.loops)
    /\ evl.call.postcur = evl.call.ret

----------------------------------------------------------------------------
\* The number of insert_doc, upsert_doc and replace_doc given.
SemanticsGiven(c) ==
    Cardinality({k \in {"insert_doc", "upsert_doc", "replace_doc"} : c[k]})

\* C31: a mutate_in given two or three of insert_doc, upsert_doc and
\* replace_doc raises InvalidArgumentException and makes no call; given
\* exactly one, a call that is made carries the store semantics of that
\* keyword whatever store_semantics the options object holds; given none, it
\* carries the one of the options object.
C31_OneStoreSemantics ==
    LET c == vcall.c IN
    c.fn = "mutate_in" =>
        /\ SemanticsGiven(c) >= 2 =>
              vcall.r.raised = "InvalidArgumentException" /\ ~vcall.r.sent
        /\ (SemanticsGiven(c) = 1 /\ vcall.r.sent) =>
              vcall.r.args.store_semantics =
                  (IF c.insert_doc THEN "INSERT"
                   ELSE IF c.upsert_doc THEN "UPSERT" ELSE "REPLACE")
        /\ (SemanticsGiven(c) = 0 /\ vcall.r.sent) =>
              vcall.r.args.store_semantics = c.semantics

\* C31 witness: upsert_doc alone, with options that say INSERT, was sent
\* with UPSERT.
C31_Witness ==
    /\ vcall.c.fn = "mutate_in"
    /\ vcall.c.semantics = "INSERT"
    /\ vcall.c.upsert_doc /\ ~vcall.c.insert_doc /\ ~vcall.c.replace_doc
    /\ vcall.r.sent
    /\ vcall.r.args.store_semantics = "UPSERT"

----------------------------------------------------------------------------
\* C32: whatever was assigned to consistency and consistent_with, at
\* creation or afterwards, successfully or not, the params never hold both
\* a scan_consistency and a mutation_state entry.
C32_NeverBoth ==
    ~("scan_consistency" \in DOMAIN n1ql.params
      /\ "mutation_state" \in DOMAIN n1ql.params)

\* C32 witness: on a query that holds a mutation state, request_plus was
\* assigned to consistency without error.
C32_Witness ==
    /\ n1ql.call.fn = "consistency"
    /\ n1ql.call.value = [t |-> "enum", v |-> "request_plus"]
    /\ n1ql.raised = "none"
    /\ "mutation_state" \in DOMAIN n1ql.params

\* C33: the outcome of create_query_object, the params or the exception, is
\* the same for every order in which the recognised options are applied.
C33_OrderIndependent ==
    n1ql.call.fn = "create_query_object" =>
        \A order \in ListsOf(recognised_options(n1ql.call.options,
                                                n1ql.call.kwargs)) :
            LET r == create_query_object("SELECT", n1ql.call.options,
                                         n1ql.call.kwargs, order) IN
            /\ r.raised = n1ql.raised
            /\ r.raised = "none" => r.params = n1ql.params

\* C34: create_query_object leaves the caller's options object as it was.
C34_OptionsUnchanged ==
    n1ql.call.fn = "create_query_object" =>
        n1ql.call.opt = OptionsObject(n1ql.call.options)

\* C35: a valid index comes back from from_server(as_dict()) equal field
\* by field, and as_dict succeeds on every index from_server returns.
C35_RoundTrip ==
    /\ (sidx.call = "from_server" /\ SearchIndex_is_valid(sidx.x)) =>
            sidx.idx = sidx.x
    /\ (sidx.call = "as_dict" /\ sidx.made) => sidx.raised = "none"

\* C36: the operation is attempted at most twice and the insert made at most
\* once per call.  Without a create_type there is one attempt and no insert,
\* and DocumentNotFoundException propagates.  With one, a first
\* DocumentNotFoundException is followed by one insert of an empty
\* create_type(); when that insert returns or raises DocumentExistsException
\* the operation is retried once and the call ends as the retry ends.
C36_RetryOnce ==
    /\ ds.attempts <= 2
    /\ ds.inserts <= 1
    /\ ds.create_type = "none" =>
            /\ ds.attempts <= 1
            /\ ds.inserts = 0
            /\ (ds.pc = "done" => ds.result = ds.first)
    /\ (ds.create_type # "none" /\ ds.first = "DocumentNotFoundException") =>
            /\ ds.inserts = 1
            /\ ds.inserted = ds.create_type
    /\ ds.first # "DocumentNotFoundException" => ds.inserts = 0
    /\ (ds.pc = "done" /\ ds.ins \in {"ok", "DocumentExistsException"}) =>
            /\ ds.attempts = 2
            /\ ds.result = ds.second
    /\ ds.ins \notin {"ok", "DocumentExistsException"} => ds.attempts <= 1

\* C36 witness: the insert raised DocumentExistsException, the retry raised
\* DocumentNotFoundException, and that is what the call raised.
C36_Witness ==
    /\ ds.pc = "done"
    /\ ds.first = "DocumentNotFoundException"
    /\ ds.ins = "DocumentExistsException"
    /\ ds.second = "DocumentNotFoundException"
    /\ ds.result = "DocumentNotFoundException"
    /\ ds.attempts = 2
    /\ ds.inserts = 1

\* C37: for a future the application cancelled while its chained connect
\* was pending, the native operation is never invoked and no set_result or
\* set_exception is attempted on it.
C37_CancelledOpUntouched ==
    \A f \in FtIds :
        op[f].by = "app" => (op[f].native = 0 /\ ~op[f].ise)

====
